---- MODULE Spec2Model ----
(***************************************************************************)
(* YATB (micaelATwh3e/yabt): the backup queue and its worker               *)
(* (src/backup.py), the scheduler loop (src/scheduler.py), the system      *)
(* tasks (src/app.py) and the run tables they write (src/db.py).           *)
(*                                                                         *)
(* Time is counted in minutes since 2024-01-01T00:00Z.  Every thread of    *)
(* the program (queue worker, scheduler loop, system-task runners, HTTP    *)
(* handlers) is a set of actions; a step of a thread is one lock-protected *)
(* section or one database call.                                           *)
(***************************************************************************)
EXTENDS Integers, Sequences, FiniteSets, TLC

VARIABLES
    queue,              \* BackupQueue._queue: items [profile_id, triggered_by]
    running_profiles,   \* BackupQueue._running_profiles
    worker_pc,          \* position of the worker thread in _worker_loop
    worker_item,        \* the worker's local `item`
    worker_run,         \* the worker's local run_id (0: none)
    profiles,           \* ids of the rows of table profiles
    runs,               \* table runs; the row id is the index
    settings,           \* table settings (the keys the scheduler reads)
    system_state,       \* app.config["system_state"]
    runners,            \* the live runner threads of _run_system_task
    system_runs,        \* table system_runs; the row id is the index
    sched_pc,           \* position of the scheduler thread in _loop
    sched_todo,         \* _run_cycle: rows of `profiles` not yet visited
    sched_now,          \* _run_cycle: now_local / now_utc taken at its start
    now,                \* the wall clock (UTC)
    tz,                 \* local time = UTC + tz
    ret,                \* what the last enqueue / run_system_task call returned
    accepted,           \* history: profile ids in the order enqueue accepted them
    started,            \* history: profile ids in the order the worker took them
    call,               \* a function of the program under examination: its name and arguments
    result              \* what that function returned

vars == <<queue, running_profiles, worker_pc, worker_item, worker_run, profiles,
          runs, settings, system_state, runners, system_runs, sched_pc,
          sched_todo, sched_now, now, tz, ret, accepted, started, call, result>>

queue_vars  == <<queue, running_profiles, worker_pc, worker_item, worker_run>>
sched_vars  == <<sched_pc, sched_todo, sched_now>>
system_vars == <<system_state, runners, system_runs>>
hist_vars   == <<accepted, started>>
call_vars   == <<call, result>>

----------------------------------------------------------------------------
(* Bounds of the model *)

MaxJobs == 2            \* manual enqueue calls are offered until this many were accepted
MaxTicks == 2           \* the clock advances this many times
TickMinutes == 60       \* minutes per clock step
MaxSystemTasks == 1     \* manual system-task requests are offered until this many runs exist

ProfileIds == {1, 2}
TaskTypes == {"ssh", "samba"}
TzOffsets == {60}
StartNow == 1 * 1440             \* 2024-01-02T00:00Z, 01:00 local

NULL == -1
NoItem == [profile_id |-> 0, triggered_by |-> ""]
NoRet == [op |-> "", arg |-> "", result |-> FALSE]
NoCall == [fn |-> ""]
NoResult == [fn |-> ""]

----------------------------------------------------------------------------
(* Strings of the scheduler: "HH:MM" is a sequence of characters; a digit   *)
(* is its value and ":" is Colon.  Python compares them lexicographically.  *)

Colon == 10

RECURSIVE StrLess(_, _)
StrLess(a, b) ==
    IF b = <<>> THEN FALSE
    ELSE IF a = <<>> THEN TRUE
    ELSE IF Head(a) # Head(b) THEN Head(a) < Head(b)
    ELSE StrLess(Tail(a), Tail(b))

StrGeq(a, b) == ~StrLess(a, b)

\* strftime("%H:%M") of a time of day in minutes
strftime_HM(t) ==
    LET h == (t % 1440) \div 60
        m == (t % 60)
    IN  <<(h \div 10), (h % 10), Colon, (m \div 10), (m % 10)>>

HM(h, m) == strftime_HM(h * 60 + m)

----------------------------------------------------------------------------
(* Calendar (Python's datetime and calendar.monthrange), from the epoch     *)
(* 2024-01-01.  A datetime is a number of minutes; a date is a number of    *)
(* days.                                                                    *)

EpochYear == 2024
MinutesPerDay == 1440

IsLeap(y) == (y % 4 = 0 /\ y % 100 # 0) \/ y % 400 = 0

\* calendar.monthrange(year, month)[1]
monthrange(y, m) ==
    IF m = 2 THEN (IF IsLeap(y) THEN 29 ELSE 28)
    ELSE IF m \in {4, 6, 9, 11} THEN 30 ELSE 31

DaysInYear(y) == IF IsLeap(y) THEN 366 ELSE 365

RECURSIVE DaysBeforeYear(_)
DaysBeforeYear(y) == IF y <= EpochYear THEN 0 ELSE DaysBeforeYear(y - 1) + DaysInYear(y - 1)

RECURSIVE DaysBeforeMonth(_, _)
DaysBeforeMonth(y, m) == IF m <= 1 THEN 0 ELSE DaysBeforeMonth(y, m - 1) + monthrange(y, m - 1)

\* the day number of a calendar date
DateToDays(y, m, d) == DaysBeforeYear(y) + DaysBeforeMonth(y, m) + (d - 1)

RECURSIVE YearOfDays(_, _)
YearOfDays(days, y) == IF days < DaysInYear(y) THEN y ELSE YearOfDays(days - DaysInYear(y), y + 1)

RECURSIVE MonthOfDays(_, _, _)
MonthOfDays(days, y, m) ==
    IF days < monthrange(y, m) THEN m ELSE MonthOfDays(days - monthrange(y, m), y, m + 1)

\* the calendar date of a day number
DaysToDate(days) ==
    LET y == YearOfDays(days, EpochYear)
        r == days - DaysBeforeYear(y)
        m == MonthOfDays(r, y, 1)
    IN  [year |-> y, month |-> m, day |-> r - DaysBeforeMonth(y, m) + 1]

DateOf(t) == t \div MinutesPerDay       \* datetime.date()
ClockOf(t) == t % MinutesPerDay         \* minutes since midnight

\* scheduler._parse_utc_to_local: a stored UTC timestamp as local naive time
parse_utc_to_local(value) == value + tz

\* _add_months without the min() of line 32
add_months_no_clamp(value, months) ==
    LET c == DaysToDate(DateOf(value))
        month_index == c.month - 1 + months
        year == c.year + (month_index \div 12)
        month == (month_index % 12) + 1
    IN  DateToDays(year, month, c.day) * MinutesPerDay + ClockOf(value)

\* scheduler._add_months on a datetime
add_months(value, months) ==
    LET c == DaysToDate(DateOf(value))
        month_index == c.month - 1 + months
        year == c.year + (month_index \div 12)
        month == (month_index % 12) + 1
        day == IF c.day < monthrange(year, month) THEN c.day ELSE monthrange(year, month)
    IN  DateToDays(year, month, day) * MinutesPerDay + ClockOf(value)

\* scheduler._add_years on a datetime
add_years(value, years) ==
    LET c == DaysToDate(DateOf(value))
        target_year == c.year + years
        day == IF c.day < monthrange(target_year, c.month)
               THEN c.day ELSE monthrange(target_year, c.month)
    IN  DateToDays(target_year, c.month, day) * MinutesPerDay + ClockOf(value)

VALID_FREQUENCIES == {"day", "week", "month", "year"}

\* str(value).strip().lower() on the spellings the model uses
LowerStrip(value) ==
    CASE value \in {"Day", " day"} -> "day"
      [] value \in {"Week", "WEEK"} -> "week"
      [] value \in {"Month"} -> "month"
      [] value \in {"Year"} -> "year"
      [] OTHER -> value

\* scheduler._normalize_frequency
normalize_frequency(value) ==
    IF value = "" THEN "day"
    ELSE IF LowerStrip(value) \in VALID_FREQUENCIES THEN LowerStrip(value) ELSE "day"

\* index of the first ":" of a string, 0 when there is none
RECURSIVE FirstColon(_, _)
FirstColon(s, i) ==
    IF i > Len(s) THEN 0 ELSE IF s[i] = Colon THEN i ELSE FirstColon(s, i + 1)

\* int(text) of a digit string; NULL stands for ValueError
RECURSIVE ParseInt(_, _)
ParseInt(text, acc) ==
    IF text = <<>> THEN acc
    ELSE IF Head(text) = Colon THEN NULL
    ELSE ParseInt(Tail(text), acc * 10 + Head(text))

IntOf(text) == IF text = <<>> THEN NULL ELSE ParseInt(text, 0)

\* _next_scheduled_after that advances a week as it advances a day, and a
\* month by thirty days
next_scheduled_after_fixed_periods(last_started_local, schedule_time, frequency) ==
    LET hour == schedule_time[1] * 10 + schedule_time[2]
        minute == schedule_time[4] * 10 + schedule_time[5]
        base == DateOf(last_started_local) * MinutesPerDay + hour * 60 + minute
    IN  IF frequency = "month" THEN base + 30 * MinutesPerDay
        ELSE IF frequency = "year" THEN add_years(base, 1)
        ELSE base + MinutesPerDay

\* scheduler._next_scheduled_after; NULL stands for the ValueError raised by
\* the unpacking of split(":", 1), by int() or by datetime.replace
next_scheduled_after(last_started_local, schedule_time, frequency) ==
    LET k == FirstColon(schedule_time, 1)
        hour == IF k = 0 THEN NULL ELSE IntOf(SubSeq(schedule_time, 1, k - 1))
        minute == IF k = 0 THEN NULL ELSE IntOf(SubSeq(schedule_time, k + 1, Len(schedule_time)))
        base == DateOf(last_started_local) * MinutesPerDay + hour * 60 + minute
    IN  IF k = 0 \/ hour = NULL \/ minute = NULL \/ hour > 23 \/ minute > 59 THEN NULL
        ELSE IF frequency = "week" THEN base + 7 * MinutesPerDay
        ELSE IF frequency = "month" THEN add_months(base, 1)
        ELSE IF frequency = "year" THEN add_years(base, 1)
        ELSE base + MinutesPerDay

\* _is_due_from_last_success without the branch of lines 63-65
is_due_without_today_branch(now_local, last_started_local, schedule_time, frequency) ==
    LET next_due == next_scheduled_after(last_started_local, schedule_time, frequency)
    IN  IF next_due = NULL THEN "error"
        ELSE IF now_local >= next_due THEN "due" ELSE "not_due"

\* scheduler._is_due_from_last_success; "error" stands for a raised ValueError
is_due_from_last_success(now_local, last_started_local, schedule_time, frequency) ==
    LET today_schedule_passed == StrGeq(strftime_HM(now_local), schedule_time)
        next_due == next_scheduled_after(last_started_local, schedule_time, frequency)
    IN  IF DateOf(last_started_local) = DateOf(now_local)
           /\ StrLess(strftime_HM(last_started_local), schedule_time)
        THEN (IF today_schedule_passed THEN "due" ELSE "not_due")
        ELSE IF next_due = NULL THEN "error"
        ELSE IF now_local >= next_due THEN "due" ELSE "not_due"

RetryMinutes == 60      \* hours_since_last >= 1.0

NoRun == [profile_id |-> 0, triggered_by |-> "", started_at |-> NULL,
          finished_at |-> NULL, status |-> "none", message |-> ""]

\* should_run that retries a failed run whatever time has passed
should_run_profile_retry_at_once(last_run, schedule_time, schedule_frequency, now_local, now_utc) ==
    IF last_run = NoRun THEN TRUE
    ELSE IF last_run.status = "success"
    THEN is_due_from_last_success(now_local, parse_utc_to_local(last_run.started_at),
                                  schedule_time, schedule_frequency) \in {"due", "error"}
    ELSE last_run.finished_at # NULL

\* should_run that retries a run without finished_at
should_run_profile_retry_unfinished(last_run, schedule_time, schedule_frequency, now_local, now_utc) ==
    IF last_run = NoRun THEN TRUE
    ELSE IF last_run.status = "success"
    THEN is_due_from_last_success(now_local, parse_utc_to_local(last_run.started_at),
                                  schedule_time, schedule_frequency) \in {"due", "error"}
    ELSE IF last_run.finished_at # NULL
         THEN now_utc - last_run.finished_at >= RetryMinutes
         ELSE TRUE

\* Scheduler._run_cycle, lines 108-145: should_run from the last run
should_run_profile(last_run, schedule_time, schedule_frequency, now_local, now_utc) ==
    IF last_run = NoRun THEN TRUE
    ELSE IF last_run.status = "success"
    THEN IF last_run.started_at # NULL
         THEN is_due_from_last_success(now_local, parse_utc_to_local(last_run.started_at),
                                       schedule_time, schedule_frequency) \in {"due", "error"}
         ELSE TRUE
    ELSE IF last_run.finished_at # NULL
         THEN now_utc - last_run.finished_at >= RetryMinutes
         ELSE FALSE

NoSystemRun == [task_type |-> "", triggered_by |-> "", started_at |-> NULL,
                finished_at |-> NULL, status |-> "none", message |-> ""]

\* should_run of the SSH task that retries a failed run whatever time has passed
should_run_ssh_retry_at_once(last_run, schedule_time, schedule_frequency, now_local, now_utc) ==
    IF last_run = NoSystemRun THEN TRUE
    ELSE IF last_run.status = "success"
    THEN IF last_run.started_at # NULL
         THEN is_due_from_last_success(now_local, parse_utc_to_local(last_run.started_at),
                                       schedule_time, schedule_frequency) \in {"due", "error"}
         ELSE TRUE
    ELSE last_run.finished_at # NULL

\* Scheduler._run_ssh_schedule, lines 165-202: should_run from the last system run
should_run_ssh(last_run, schedule_time, schedule_frequency, now_local, now_utc) ==
    IF last_run = NoSystemRun THEN TRUE
    ELSE IF last_run.status = "success"
    THEN IF last_run.started_at # NULL
         THEN is_due_from_last_success(now_local, parse_utc_to_local(last_run.started_at),
                                       schedule_time, schedule_frequency) \in {"due", "error"}
         ELSE TRUE
    ELSE IF last_run.finished_at # NULL
         THEN now_utc - last_run.finished_at >= RetryMinutes
         ELSE FALSE

----------------------------------------------------------------------------
(* The tables of src/db.py *)

\* the rows of table profiles: the columns the scheduler reads
ProfileRow(p) ==
    IF p = 1
    THEN [id |-> 1, schedule_enabled |-> TRUE, schedule_time |-> HM(2, 0),
          schedule_frequency |-> "day"]
    ELSE [id |-> p, schedule_enabled |-> FALSE, schedule_time |-> HM(2, 30),
          schedule_frequency |-> "week"]

\* a set of integers as an ascending sequence
RECURSIVE SortedSeq(_)
SortedSeq(S) ==
    IF S = {} THEN <<>>
    ELSE LET m == CHOOSE x \in S : \A y \in S : x <= y
         IN  <<m>> \o SortedSeq(S \ {m})

\* db.list_profiles: ORDER BY name (profile p is named by its number)
list_profiles == SortedSeq(profiles)

\* db.now_iso
now_iso == now

\* db.create_run: the row it inserts
NewRun(profile_id, triggered_by) ==
    [profile_id |-> profile_id, triggered_by |-> triggered_by, started_at |-> now_iso,
     finished_at |-> NULL, status |-> "running", message |-> ""]

\* an UPDATE that leaves the status column as it is
finish_run_keeps_status(table, run_id, status, message) ==
    [table EXCEPT ![run_id] = [@ EXCEPT !.finished_at = now_iso,
                                        !.message = IF message = "" THEN "" ELSE "text"]]

\* db.finish_run (and db.finish_system_run): the table after the UPDATE; of the
\* message the table keeps whether it is a text ("text") or empty
finish_run(table, run_id, status, message) ==
    [table EXCEPT ![run_id] = [@ EXCEPT !.finished_at = now_iso, !.status = status,
                                        !.message = IF message = "" THEN "" ELSE "text"]]

\* ORDER BY started_at DESC LIMIT 1 over the rows `ids` of `table`: the rows
\* SQLite may return (any of those with the greatest started_at), or NoRun
LastOf(table, ids, none) ==
    IF ids = {} THEN {none}
    ELSE {table[i] : i \in {j \in ids : \A k \in ids : table[k].started_at <= table[j].started_at}}

\* db.get_last_run_for_profile
get_last_run_for_profile(profile_id) ==
    LastOf(runs, {i \in DOMAIN runs : runs[i].profile_id = profile_id}, NoRun)

\* db.get_last_system_run_for_task
get_last_system_run_for_task(task_type) ==
    LastOf(system_runs, {i \in DOMAIN system_runs : system_runs[i].task_type = task_type},
           NoSystemRun)

\* db.get_setting(key, default)
get_setting(key, default) == IF key \in DOMAIN settings THEN settings[key] ELSE default

\* db.set_setting
set_setting(key, value) ==
    [k \in DOMAIN settings \cup {key} |-> IF k = key THEN value ELSE settings[k]]

----------------------------------------------------------------------------
(* BackupQueue (src/backup.py) *)

QueuedIds == {queue[i].profile_id : i \in DOMAIN queue}

\* enqueue without the test of the running set (line 34-35 dropped)
enqueue_no_running_test(profile_id, triggered_by) ==
    IF profile_id \in QueuedIds
    THEN /\ ret' = [op |-> "enqueue", arg |-> profile_id, result |-> FALSE]
         /\ UNCHANGED <<queue, accepted>>
    ELSE /\ queue' = Append(queue, [profile_id |-> profile_id, triggered_by |-> triggered_by])
         /\ accepted' = Append(accepted, profile_id)
         /\ ret' = [op |-> "enqueue", arg |-> profile_id, result |-> TRUE]

\* enqueue that reports a queued profile but appends it again (line 37 dropped)
enqueue_appends_duplicate(profile_id, triggered_by) ==
    IF profile_id \in running_profiles
    THEN /\ ret' = [op |-> "enqueue", arg |-> profile_id, result |-> FALSE]
         /\ UNCHANGED <<queue, accepted>>
    ELSE /\ queue' = Append(queue, [profile_id |-> profile_id, triggered_by |-> triggered_by])
         /\ accepted' = Append(accepted, profile_id)
         /\ ret' = [op |-> "enqueue", arg |-> profile_id,
                    result |-> profile_id \notin QueuedIds]

\* BackupQueue.enqueue
enqueue(profile_id, triggered_by) ==
    IF profile_id \in running_profiles \/ profile_id \in QueuedIds
    THEN /\ ret' = [op |-> "enqueue", arg |-> profile_id, result |-> FALSE]
         /\ UNCHANGED <<queue, accepted>>
    ELSE /\ queue' = Append(queue, [profile_id |-> profile_id, triggered_by |-> triggered_by])
         /\ accepted' = Append(accepted, profile_id)
         /\ ret' = [op |-> "enqueue", arg |-> profile_id, result |-> TRUE]

\* BackupQueue.status
status == [running |-> SortedSeq(running_profiles),
           queued |-> [i \in DOMAIN queue |-> queue[i].profile_id]]

\* the worker marking the profile running only after it released the lock: the
\* pop and the insertion into the running set are two steps
WorkerTake_gap ==
    /\ worker_pc = "wait"
    /\ queue # <<>>
    /\ worker_item' = Head(queue)
    /\ queue' = Tail(queue)
    /\ running_profiles' = running_profiles
    /\ started' = Append(started, Head(queue).profile_id)
    /\ worker_pc' = "get_profile"
    /\ UNCHANGED <<call_vars, worker_run, profiles, runs, settings, system_vars, sched_vars,
                   now, tz, ret, accepted>>

\* the worker popping the newest item (pop() for pop(0))
WorkerTake_lifo ==
    /\ worker_pc = "wait"
    /\ queue # <<>>
    /\ worker_item' = queue[Len(queue)]
    /\ queue' = SubSeq(queue, 1, Len(queue) - 1)
    /\ running_profiles' = running_profiles \cup {queue[Len(queue)].profile_id}
    /\ started' = Append(started, queue[Len(queue)].profile_id)
    /\ worker_pc' = "get_profile"
    /\ UNCHANGED <<call_vars, worker_run, profiles, runs, settings, system_vars, sched_vars,
                   now, tz, ret, accepted>>

\* _worker_loop, lines 51-56: wait for an item, pop it, mark it running
WorkerTake ==
    /\ worker_pc = "wait"
    /\ queue # <<>>
    /\ worker_item' = Head(queue)
    /\ queue' = Tail(queue)
    /\ running_profiles' = running_profiles \cup {Head(queue).profile_id}
    /\ started' = Append(started, Head(queue).profile_id)
    /\ worker_pc' = "get_profile"
    /\ UNCHANGED <<call_vars, worker_run, profiles, runs, settings, system_vars, sched_vars,
                   now, tz, ret, accepted>>

\* run_backup without the test of lines 66-67: a missing profile goes on to
\* db.create_run
WorkerGetProfile_no_test ==
    /\ worker_pc = "get_profile"
    /\ worker_pc' = "create_run"
    /\ UNCHANGED <<call_vars, queue, running_profiles, worker_item, worker_run, profiles, runs,
                   settings, system_vars, sched_vars, now, tz, ret, hist_vars>>

\* run_backup, lines 65-67: load the profile, return when it is gone
WorkerGetProfile ==
    /\ worker_pc = "get_profile"
    /\ worker_pc' = IF worker_item.profile_id \in profiles THEN "create_run" ELSE "finally"
    /\ UNCHANGED <<call_vars, queue, running_profiles, worker_item, worker_run, profiles, runs,
                   settings, system_vars, sched_vars, now, tz, ret, hist_vars>>

\* run_backup, line 69: db.create_run; the INSERT violates the foreign key
\* runs.profile_id -> profiles.id when the profile was deleted meanwhile, and
\* the sqlite3.IntegrityError leaves run_backup uncaught
WorkerCreateRun ==
    /\ worker_pc = "create_run"
    /\ IF worker_item.profile_id \in profiles
       THEN /\ runs' = Append(runs, NewRun(worker_item.profile_id, worker_item.triggered_by))
            /\ worker_run' = Len(runs) + 1
            /\ worker_pc' = "engine"
       ELSE /\ worker_pc' = "finally_raise"
            /\ UNCHANGED <<runs, worker_run>>
    /\ UNCHANGED <<call_vars, queue, running_profiles, worker_item, profiles, settings, system_vars,
                   sched_vars, now, tz, ret, hist_vars>>

\* what run_profile_backup may do: return success, return failed, or raise
EngineOutcomes == {"success", "failed", "raise"}

\* run_backup, lines 76-81: the (status, message) of an engine outcome
JobResult(outcome) ==
    CASE outcome = "success" -> [status |-> "success", message |-> "Completed"]
      [] outcome = "failed" -> [status |-> "failed", message |-> "Completed with errors"]
      [] OTHER -> [status |-> "failed", message |-> "Unexpected error"]

\* run_backup without the except clause of lines 78-81: an engine that raises
\* leaves run_backup before db.finish_run
WorkerFinishRun_no_except ==
    /\ worker_pc = "engine"
    /\ \E outcome \in EngineOutcomes :
          IF outcome = "raise"
          THEN worker_pc' = "finally_raise" /\ runs' = runs
          ELSE /\ runs' = finish_run(runs, worker_run, JobResult(outcome).status,
                                     JobResult(outcome).message)
               /\ worker_pc' = "finally"
    /\ UNCHANGED <<call_vars, queue, running_profiles, worker_item, worker_run, profiles, settings,
                   system_vars, sched_vars, now, tz, ret, hist_vars>>

\* run_backup, lines 76-82: the engine ends and db.finish_run records it
WorkerFinishRun ==
    /\ worker_pc = "engine"
    /\ \E outcome \in EngineOutcomes :
          runs' = finish_run(runs, worker_run, JobResult(outcome).status,
                             JobResult(outcome).message)
    /\ worker_pc' = "finally"
    /\ UNCHANGED <<call_vars, queue, running_profiles, worker_item, worker_run, profiles, settings,
                   system_vars, sched_vars, now, tz, ret, hist_vars>>

\* the worker without the cleanup of the running set (line 61 dropped)
WorkerFinally_no_discard ==
    /\ worker_pc \in {"finally", "finally_raise"}
    /\ running_profiles' = running_profiles
    /\ worker_pc' = IF worker_pc = "finally" THEN "wait" ELSE "dead"
    /\ worker_item' = NoItem
    /\ worker_run' = 0
    /\ UNCHANGED <<call_vars, queue, profiles, runs, settings, system_vars, sched_vars, now, tz,
                   ret, hist_vars>>

\* the worker with the cleanup after the call instead of in a finally block:
\* a job that raised leaves its id in the running set
WorkerFinally_only_on_return ==
    /\ worker_pc \in {"finally", "finally_raise"}
    /\ running_profiles' = IF worker_pc = "finally"
                           THEN running_profiles \ {worker_item.profile_id}
                           ELSE running_profiles
    /\ worker_pc' = IF worker_pc = "finally" THEN "wait" ELSE "dead"
    /\ worker_item' = NoItem
    /\ worker_run' = 0
    /\ UNCHANGED <<call_vars, queue, profiles, runs, settings, system_vars, sched_vars, now, tz,
                   ret, hist_vars>>

\* _worker_loop, lines 59-61: the finally block; an exception that reached it
\* leaves the while loop and ends the thread
WorkerFinally ==
    /\ worker_pc \in {"finally", "finally_raise"}
    /\ running_profiles' = running_profiles \ {worker_item.profile_id}
    /\ worker_pc' = IF worker_pc = "finally" THEN "wait" ELSE "dead"
    /\ worker_item' = NoItem
    /\ worker_run' = 0
    /\ UNCHANGED <<call_vars, queue, profiles, runs, settings, system_vars, sched_vars, now, tz,
                   ret, hist_vars>>

----------------------------------------------------------------------------
(* System tasks (src/app.py) *)

\* db.create_system_run: the row it inserts (triggered_by is the runner's, kept
\* beside the row; table system_runs has no such column)
NewSystemRun(task_type) ==
    [task_type |-> task_type, triggered_by |-> "", started_at |-> now_iso,
     finished_at |-> NULL, status |-> "running", message |-> ""]

\* _run_system_task without the test of the busy flag (lines 415-418 dropped)
run_system_task_no_flag_test(task_type, triggered_by) ==
    /\ system_state' = [system_state EXCEPT ![task_type] = TRUE]
    /\ runners' = Append(runners, [task_type |-> task_type, triggered_by |-> triggered_by,
                                   pc |-> "create", run_id |-> 0])
    /\ ret' = [op |-> "run_system_task", arg |-> task_type, result |-> TRUE]

\* _run_system_task, lines 414-419 and 456-461: test and set the busy flag
\* under the lock, then start the runner thread
run_system_task(task_type, triggered_by) ==
    IF system_state[task_type]
    THEN /\ ret' = [op |-> "run_system_task", arg |-> task_type, result |-> FALSE]
         /\ UNCHANGED <<system_state, runners>>
    ELSE /\ system_state' = [system_state EXCEPT ![task_type] = TRUE]
         /\ runners' = Append(runners, [task_type |-> task_type, triggered_by |-> triggered_by,
                                        pc |-> "create", run_id |-> 0])
         /\ ret' = [op |-> "run_system_task", arg |-> task_type, result |-> TRUE]

\* _start_ssh_task
start_ssh_task(triggered_by) == run_system_task("ssh", triggered_by)

RemoveAt(seq, i) == SubSeq(seq, 1, i - 1) \o SubSeq(seq, i + 1, Len(seq))

\* runner, line 422: db.create_system_run
RunnerCreate(i) ==
    /\ runners[i].pc = "create"
    /\ system_runs' = Append(system_runs, NewSystemRun(runners[i].task_type))
    /\ runners' = [runners EXCEPT ![i].pc = "task", ![i].run_id = Len(system_runs) + 1]
    /\ UNCHANGED <<call_vars, queue_vars, profiles, runs, settings, system_state, sched_vars, now, tz,
                   ret, hist_vars>>

\* what SSHBackupRunner.run / SambaManager.run may do
TaskOutcomes == {"success", "failed", "raise"}

\* runner, lines 429-443: the (status, message) of a task outcome
TaskResult(outcome) ==
    CASE outcome = "success" -> [status |-> "success", message |-> "Completed"]
      [] outcome = "failed" -> [status |-> "failed", message |-> "Task failed"]
      [] OTHER -> [status |-> "failed", message |-> "Unexpected error"]

\* runner, lines 431-451: the task ends, db.finish_system_run records it, and a
\* successful scheduler-triggered ssh task stores ssh_last_scheduled_date
RunnerFinish(i) ==
    /\ runners[i].pc = "task"
    /\ \E outcome \in TaskOutcomes :
          /\ system_runs' = finish_run(system_runs, runners[i].run_id,
                                       TaskResult(outcome).status, TaskResult(outcome).message)
          /\ settings' = IF /\ TaskResult(outcome).status = "success"
                            /\ runners[i].triggered_by = "scheduler"
                            /\ runners[i].task_type = "ssh"
                         THEN set_setting("ssh_last_scheduled_date", DateOf(now_iso))
                         ELSE settings
    /\ runners' = [runners EXCEPT ![i].pc = "release"]
    /\ UNCHANGED <<call_vars, queue_vars, profiles, runs, system_state, sched_vars, now, tz, ret,
                   hist_vars>>

\* runner, lines 453-454: clear the busy flag under the lock; the thread ends
RunnerRelease(i) ==
    /\ runners[i].pc = "release"
    /\ system_state' = [system_state EXCEPT ![runners[i].task_type] = FALSE]
    /\ runners' = RemoveAt(runners, i)
    /\ UNCHANGED <<call_vars, queue_vars, profiles, runs, settings, system_runs, sched_vars, now, tz,
                   ret, hist_vars>>

----------------------------------------------------------------------------
(* Scheduler (src/scheduler.py) *)

\* Scheduler._loop, line 89: the 30 s wait ends
SchedWake ==
    /\ sched_pc = "wait"
    /\ sched_pc' = "loop"
    /\ UNCHANGED <<call_vars, queue_vars, profiles, runs, settings, system_vars, sched_todo, sched_now,
                   now, tz, ret, hist_vars>>

\* a loop that runs the cycle whatever the flag says
SchedLoop_ignores_flag ==
    /\ sched_pc = "loop"
    /\ sched_pc' = "cycle"
    /\ sched_todo' = list_profiles
    /\ sched_now' = now
    /\ UNCHANGED <<call_vars, queue_vars, profiles, runs, settings, system_vars, now, tz, ret,
                   hist_vars>>

\* Scheduler._loop, lines 86-88, and _run_cycle, lines 92-95: read the flag;
\* when it is "1" list the profiles and take the time, else wait again
SchedLoop ==
    /\ sched_pc = "loop"
    /\ IF get_setting("scheduler_enabled", "1") = "1"
       THEN /\ sched_pc' = "cycle"
            /\ sched_todo' = list_profiles
            /\ sched_now' = now
       ELSE /\ sched_pc' = "wait"
            /\ UNCHANGED <<sched_todo, sched_now>>
    /\ UNCHANGED <<call_vars, queue_vars, profiles, runs, settings, system_vars, now, tz, ret,
                   hist_vars>>

\* the cycle without the time-of-day test of lines 104-105
cycle_should_run_no_gate(profile, last_run, now_local, now_utc) ==
    /\ profile.schedule_enabled
    /\ profile.schedule_time # <<>>
    /\ should_run_profile(last_run, profile.schedule_time,
                          normalize_frequency(profile.schedule_frequency), now_local, now_utc)

\* the cycle that skips a profile whose last_scheduled_date is today
cycle_should_run_trusts_marker(profile, last_run, now_local, now_utc) ==
    /\ profile.schedule_enabled
    /\ profile.schedule_time # <<>>
    /\ ~StrLess(strftime_HM(now_local), profile.schedule_time)
    /\ profile.last_scheduled_date # DateOf(now_local)
    /\ should_run_profile(last_run, profile.schedule_time,
                          normalize_frequency(profile.schedule_frequency), now_local, now_utc)

\* _run_cycle, lines 98-148: whether the profile row is passed to enqueue
cycle_should_run(profile, last_run, now_local, now_utc) ==
    /\ profile.schedule_enabled
    /\ profile.schedule_time # <<>>
    /\ ~StrLess(strftime_HM(now_local), profile.schedule_time)
    /\ should_run_profile(last_run, profile.schedule_time,
                          normalize_frequency(profile.schedule_frequency), now_local, now_utc)

\* _run_cycle, lines 97-148: one turn of the loop over the profiles
SchedProfile ==
    /\ sched_pc = "cycle"
    /\ sched_todo # <<>>
    /\ LET profile == ProfileRow(Head(sched_todo))
       IN  \E last_run \in get_last_run_for_profile(profile.id) :
              IF cycle_should_run(profile, last_run, sched_now + tz, sched_now)
              THEN enqueue(profile.id, "scheduler")
              ELSE UNCHANGED <<queue, accepted, ret>>
    /\ sched_todo' = Tail(sched_todo)
    /\ UNCHANGED <<call_vars, running_profiles, worker_pc, worker_item, worker_run, profiles, runs,
                   settings, system_vars, sched_pc, sched_now, now, tz, started>>

\* _run_ssh_schedule, lines 154-205: whether the callback is invoked
ssh_should_run(last_run, current_time, now_local, now_utc) ==
    /\ get_setting("ssh_schedule_enabled", "0") = "1"
    /\ get_setting("ssh_schedule_time", <<>>) # <<>>
    /\ ~StrLess(current_time, get_setting("ssh_schedule_time", <<>>))
    /\ should_run_ssh(last_run, get_setting("ssh_schedule_time", <<>>),
                      normalize_frequency(get_setting("ssh_schedule_frequency", "day")),
                      now_local, now_utc)

\* _run_cycle, line 151, and _run_ssh_schedule: the end of a cycle
SchedSsh ==
    /\ sched_pc = "cycle"
    /\ sched_todo = <<>>
    /\ \E last_run \in get_last_system_run_for_task("ssh") :
          IF ssh_should_run(last_run, strftime_HM(sched_now + tz), now + tz, now)
          THEN start_ssh_task("scheduler")
          ELSE UNCHANGED <<system_state, runners, ret>>
    /\ sched_pc' = "wait"
    /\ sched_now' = 0
    /\ UNCHANGED <<call_vars, queue_vars, profiles, runs, settings, system_runs, sched_todo, now, tz,
                   hist_vars>>

----------------------------------------------------------------------------
(* HTTP handlers (src/app.py) and the clock *)

\* POST /api/profiles/<id>/run; the request is made while fewer than MaxJobs
\* jobs were accepted, or for a profile that is queued or running
api_profile_run(profile_id) ==
    /\ Len(accepted) < MaxJobs \/ profile_id \in running_profiles \cup QueuedIds
    /\ enqueue(profile_id, "manual")
    /\ UNCHANGED <<call_vars, running_profiles, worker_pc, worker_item, worker_run, profiles, runs,
                   settings, system_vars, sched_vars, now, tz, started>>

\* POST /profiles/<id>/delete: db.delete_profile; the DELETE fails on the
\* foreign key while a run of the profile exists
profile_delete(profile_id) ==
    /\ profile_id \in profiles
    /\ \A i \in DOMAIN runs : runs[i].profile_id # profile_id
    /\ profiles' = profiles \ {profile_id}
    /\ UNCHANGED <<call_vars, queue_vars, runs, settings, system_vars, sched_vars, now, tz, ret,
                   hist_vars>>

\* POST /api/scheduler/toggle
api_scheduler_toggle ==
    /\ settings' = set_setting("scheduler_enabled",
                               IF get_setting("scheduler_enabled", "1") = "1" THEN "0" ELSE "1")
    /\ UNCHANGED <<call_vars, queue_vars, profiles, runs, system_vars, sched_vars, now, tz, ret,
                   hist_vars>>

\* POST /api/system/ssh/run and POST /api/system/samba/run; the request is made
\* while fewer than MaxSystemTasks system runs exist, or for a busy task type
api_run_system(task_type) ==
    /\ Len(system_runs) < MaxSystemTasks \/ system_state[task_type]
    /\ run_system_task(task_type, "manual")
    /\ UNCHANGED <<call_vars, queue_vars, profiles, runs, settings, system_runs, sched_vars, now, tz,
                   hist_vars>>

\* POST /config/ssh: the schedule fields of the form
ssh_config(schedule_time, schedule_enabled) ==
    /\ settings' = [set_setting("ssh_schedule_time", schedule_time)
                       EXCEPT !["ssh_schedule_enabled"] = IF schedule_enabled THEN "1" ELSE "0"]
    /\ settings' # settings
    /\ UNCHANGED <<call_vars, queue_vars, profiles, runs, system_vars, sched_vars, now, tz, ret,
                   hist_vars>>

\* time passes
Tick ==
    /\ now < StartNow + MaxTicks * TickMinutes
    /\ now' = now + TickMinutes
    /\ UNCHANGED <<call_vars, queue_vars, profiles, runs, settings, system_vars, sched_vars, tz, ret,
                   hist_vars>>

----------------------------------------------------------------------------
(* Specifications *)

\* the state after create_app() (init_db, _ensure_defaults, BackupQueue(),
\* system_state, Scheduler.start()) over a database that holds the profiles
\* `profs`, no runs, and the SSH schedule as the administrator left it
InitProgram(profs, ssh_schedule_on, t0) ==
    /\ queue = <<>>
    /\ running_profiles = {}
    /\ worker_pc = "wait"
    /\ worker_item = NoItem
    /\ worker_run = 0
    /\ profiles = profs
    /\ runs = <<>>
    /\ settings = [k \in {"scheduler_enabled", "ssh_schedule_enabled", "ssh_schedule_time"} |->
                     CASE k = "scheduler_enabled" -> "1"
                       [] k = "ssh_schedule_enabled" -> (IF ssh_schedule_on THEN "1" ELSE "0")
                       [] OTHER -> (IF ssh_schedule_on THEN HM(2, 0) ELSE <<>>)]
    /\ system_state = [t \in TaskTypes |-> FALSE]
    /\ runners = <<>>
    /\ system_runs = <<>>
    /\ sched_pc = "loop"
    /\ sched_todo = <<>>
    /\ sched_now = 0
    /\ now = t0
    /\ tz \in TzOffsets
    /\ ret = NoRet
    /\ accepted = <<>>
    /\ started = <<>>

\* the program after create_app(), no function singled out
InitState(profs, ssh_schedule_on, t0) ==
    /\ InitProgram(profs, ssh_schedule_on, t0)
    /\ call = NoCall
    /\ result = NoResult

(* The backup queue: manual runs, profile deletion, the worker, the        *)
(* scheduler and the clock; nobody requests a system task and the SSH      *)
(* schedule is off (its default).                                          *)
Init == InitState(ProfileIds, FALSE, StartNow)

Next ==
    \/ \E p \in ProfileIds : api_profile_run(p)
    \/ \E p \in ProfileIds : profile_delete(p)
    \/ WorkerTake
    \/ WorkerGetProfile
    \/ WorkerCreateRun
    \/ WorkerFinishRun
    \/ WorkerFinally
    \/ SchedWake
    \/ SchedLoop
    \/ SchedProfile
    \/ SchedSsh
    \/ Tick

Spec == Init /\ [][Next]_vars

(* The system tasks: manual requests, the runner threads, the scheduler    *)
(* with the SSH schedule on, and the clock; the database holds no profile. *)
InitSystem == InitState({}, TRUE, StartNow)

NextSystem ==
    \/ \E t \in TaskTypes : api_run_system(t)
    \/ \E i \in DOMAIN runners : RunnerCreate(i)
    \/ \E i \in DOMAIN runners : RunnerFinish(i)
    \/ \E i \in DOMAIN runners : RunnerRelease(i)
    \/ SchedWake
    \/ SchedLoop
    \/ SchedSsh
    \/ Tick

SpecSystem == InitSystem /\ [][NextSystem]_vars

(* The system tasks over a database whose statements can fail: the INSERT   *)
(* of db.create_system_run and the UPDATE of db.finish_system_run either   *)
(* succeed or raise sqlite3.Error (database locked, disk full); the        *)
(* exception is uncaught in runner and ends its thread.                    *)
DbOutcomes == {"ok", "raise"}

\* runner, line 422, outside the try block: a raise ends the thread here
RunnerCreateDb(i) ==
    \E db_outcome \in DbOutcomes :
        IF db_outcome = "ok"
        THEN RunnerCreate(i)
        ELSE /\ runners[i].pc = "create"
             /\ runners' = RemoveAt(runners, i)
             /\ UNCHANGED <<call_vars, queue_vars, profiles, runs, settings, system_state,
                            system_runs, sched_vars, now, tz, ret, hist_vars>>

\* runner, lines 431-451: db.finish_system_run is the first statement of the
\* finally block; a raise leaves the block before lines 453-454
RunnerFinishDb(i) ==
    \E db_outcome \in DbOutcomes :
        IF db_outcome = "ok"
        THEN RunnerFinish(i)
        ELSE /\ runners[i].pc = "task"
             /\ runners' = RemoveAt(runners, i)
             /\ UNCHANGED <<call_vars, queue_vars, profiles, runs, settings, system_state,
                            system_runs, sched_vars, now, tz, ret, hist_vars>>

NextSystemDb ==
    \/ \E t \in TaskTypes : api_run_system(t)
    \/ \E i \in DOMAIN runners : RunnerCreateDb(i)
    \/ \E i \in DOMAIN runners : RunnerFinishDb(i)
    \/ \E i \in DOMAIN runners : RunnerRelease(i)
    \/ SchedWake
    \/ SchedLoop
    \/ SchedSsh
    \/ Tick

SpecSystemDb == InitSystem /\ [][NextSystemDb]_vars

RunnerDbOf(t) ==
    \E i \in DOMAIN runners :
        runners[i].task_type = t /\ (RunnerCreateDb(i) \/ RunnerFinishDb(i) \/ RunnerRelease(i))

\* the runner threads are scheduled
FairSpecSystemDb ==
    /\ SpecSystemDb
    /\ \A t \in TaskTypes : WF_vars(RunnerDbOf(t))

(* The jobs at the scheduled minute: manual runs, the worker, the scheduler *)
(* with the SSH schedule on and the runner threads it starts.              *)
InitAll == InitState(ProfileIds, TRUE, StartNow + TickMinutes)

NextRuns ==
    \/ \E p \in ProfileIds : api_profile_run(p)
    \/ WorkerTake
    \/ WorkerGetProfile
    \/ WorkerCreateRun
    \/ WorkerFinishRun
    \/ WorkerFinally
    \/ SchedWake
    \/ SchedLoop
    \/ SchedProfile
    \/ SchedSsh
    \/ \E i \in DOMAIN runners : RunnerCreate(i)
    \/ \E i \in DOMAIN runners : RunnerFinish(i)
    \/ \E i \in DOMAIN runners : RunnerRelease(i)

SpecRuns == InitAll /\ [][NextRuns]_vars

\* the threads of the process are scheduled: a thread that can take a step
\* eventually takes one
Worker == WorkerTake \/ WorkerGetProfile \/ WorkerCreateRun \/ WorkerFinishRun \/ WorkerFinally

RunnerOf(t) ==
    \E i \in DOMAIN runners :
        runners[i].task_type = t /\ (RunnerCreate(i) \/ RunnerFinish(i) \/ RunnerRelease(i))

FairSpecRuns ==
    /\ SpecRuns
    /\ WF_vars(Worker)
    /\ \A t \in TaskTypes : WF_vars(RunnerOf(t))

\* the backup queue with its worker thread scheduled
FairSpec == Spec /\ WF_vars(Worker)

(* The same with the scheduler toggle. *)
NextAll ==
    \/ NextRuns
    \/ api_scheduler_toggle

SpecAll == InitAll /\ [][NextAll]_vars

----------------------------------------------------------------------------
(* The due decision of the scheduler, one call at a time *)

program_vars == <<queue_vars, profiles, runs, settings, system_vars, sched_vars, now, tz, ret,
                  hist_vars>>

\* days of the last start: 2024-01-31, 2024-02-29 and 2024-12-31
DueLastDays == {30, 59, 365}
\* days from the last start to now
DueDeltas == {0, 1, 6, 7, 28, 29, 30, 31, 365, 366}
DueLastClocks == {60, 125}                  \* 01:00 and 02:05
DueNowClocks == {119, 120}                  \* 01:59 and 02:00
DueScheduleTimes == {HM(2, 0)}

\* calls of _is_due_from_last_success
IsDueCalls ==
    {[fn |-> "is_due_from_last_success",
      now_local |-> (d + k) * MinutesPerDay + c,
      last_started_local |-> d * MinutesPerDay + lc,
      schedule_time |-> st,
      frequency |-> f] :
        d \in DueLastDays, k \in DueDeltas, c \in DueNowClocks, lc \in DueLastClocks,
        st \in DueScheduleTimes, f \in VALID_FREQUENCIES}

\* the last Run rows a cycle may find: a failed one, finished at 22:30, 00:00
\* or 01:30 local time, and one still running
CycleFinishedAt == {StartNow - 150, StartNow - 60, StartNow + 30}
CycleElapsed == {30, 59, 60, 90, 1440}

CycleLastRuns ==
    {[profile_id |-> 1, triggered_by |-> "scheduler", started_at |-> fin - 5,
      finished_at |-> fin, status |-> "failed", message |-> "text"] : fin \in CycleFinishedAt}
    \cup
    {[profile_id |-> 1, triggered_by |-> "scheduler", started_at |-> fin - 5,
      finished_at |-> NULL, status |-> "running", message |-> ""] : fin \in CycleFinishedAt}

\* calls of the body of _run_cycle for one profile row
CycleCalls ==
    {[fn |-> "run_cycle",
      profile |-> [id |-> 1, schedule_enabled |-> TRUE, schedule_time |-> HM(2, 0),
                   schedule_frequency |-> f],
      last_run |-> r,
      now_utc |-> r.started_at + 5 + e] :
        f \in VALID_FREQUENCIES, r \in CycleLastRuns, e \in CycleElapsed}

CycleLastSystemRuns ==
    {[task_type |-> "ssh", triggered_by |-> "", started_at |-> fin - 5,
      finished_at |-> fin, status |-> "failed", message |-> "text"] : fin \in CycleFinishedAt}
    \cup
    {[task_type |-> "ssh", triggered_by |-> "", started_at |-> fin - 5,
      finished_at |-> NULL, status |-> "running", message |-> ""] : fin \in CycleFinishedAt}

\* calls of _run_ssh_schedule
SshCalls ==
    {[fn |-> "run_ssh_schedule", last_run |-> r, now_utc |-> r.started_at + 5 + e] :
        r \in CycleLastSystemRuns, e \in CycleElapsed}

CallIsDue ==
    /\ call.fn = "is_due_from_last_success"
    /\ result = NoResult
    /\ result' = [fn |-> call.fn,
                  value |-> is_due_from_last_success(call.now_local, call.last_started_local,
                                                     call.schedule_time, call.frequency)]
    /\ UNCHANGED <<call, program_vars>>

CallCycle ==
    /\ call.fn = "run_cycle"
    /\ result = NoResult
    /\ result' = [fn |-> call.fn,
                  value |-> cycle_should_run(call.profile, call.last_run, call.now_utc + tz,
                                             call.now_utc)]
    /\ UNCHANGED <<call, program_vars>>

CallSsh ==
    /\ call.fn = "run_ssh_schedule"
    /\ result = NoResult
    /\ result' = [fn |-> call.fn,
                  value |-> ssh_should_run(call.last_run, strftime_HM(call.now_utc + tz),
                                           call.now_utc + tz, call.now_utc)]
    /\ UNCHANGED <<call, program_vars>>

InitDue ==
    /\ InitProgram({}, TRUE, StartNow)
    /\ call \in IsDueCalls \cup CycleCalls \cup SshCalls
    /\ result = NoResult

NextDue ==
    \/ CallIsDue
    \/ CallCycle
    \/ CallSsh

SpecDue == InitDue /\ [][NextDue]_vars

(***************************************************************************)
(* A cycle over the history of a profile: a run the scheduler triggered,   *)
(* which succeeded, and the manual runs that succeeded after it.  Times of *)
(* the calls are UTC, one hour behind local time; schedule_time is 02:00.  *)
(***************************************************************************)

\* local days of the scheduled run: 2024-01-02 and 2024-01-31
SlotDays == {1, 30}
\* days from the scheduled run to the manual run, and to the cycle
SlotManualDeltas == {1, 3}
SlotCycleDeltas == {1, 2, 3, 4, 6, 7, 8, 28, 29, 30, 31, 365, 366}

SuccessRun(triggered_by, started_at) ==
    [profile_id |-> 1, triggered_by |-> triggered_by, started_at |-> started_at,
     finished_at |-> started_at + 5, status |-> "success", message |-> "text"]

\* the scheduled run started at 02:00 or 02:05 local time of day d; a manual
\* run, if any, started at 01:00 or 03:00 local time of a later day
SlotHistories ==
    {<<SuccessRun("scheduler", d * MinutesPerDay + c)>> : d \in SlotDays, c \in {60, 65}}
    \cup
    {<<SuccessRun("scheduler", d * MinutesPerDay + c),
       SuccessRun("manual", (d + k) * MinutesPerDay + m)>> :
        d \in SlotDays, c \in {60, 65}, k \in SlotManualDeltas, m \in {0, 120}}

\* cycles at 01:59 and at 02:00 local time of a later day, after the last run
SlotCalls ==
    {c \in {[fn |-> "run_cycle_history",
             profile |-> [id |-> 1, schedule_enabled |-> TRUE, schedule_time |-> HM(2, 0),
                          schedule_frequency |-> f],
             history |-> h,
             now_utc |-> (DateOf(h[1].started_at) + j) * MinutesPerDay + t] :
                f \in VALID_FREQUENCIES, h \in SlotHistories, j \in SlotCycleDeltas,
                t \in {59, 60}} :
        c.now_utc > c.history[Len(c.history)].finished_at}

\* _run_cycle for the profile row of the call, db.get_last_run_for_profile
\* choosing the last run of the history
CallCycleHistory ==
    /\ call.fn = "run_cycle_history"
    /\ result = NoResult
    /\ \E last_run \in LastOf(call.history, DOMAIN call.history, NoRun) :
          result' = [fn |-> call.fn,
                     last_run |-> last_run,
                     value |-> cycle_should_run(call.profile, last_run, call.now_utc + tz,
                                                call.now_utc)]
    /\ UNCHANGED <<call, program_vars>>

InitSlot ==
    /\ InitProgram({}, FALSE, StartNow)
    /\ call \in SlotCalls
    /\ result = NoResult

NextSlot == CallCycleHistory

SpecSlot == InitSlot /\ [][NextSlot]_vars

(***************************************************************************)
(* _add_months and _add_years, one call at a time, on every date from the  *)
(* epoch to the end of MaxCalendarYear and two clock times.                *)
(***************************************************************************)

MaxCalendarYear == 2028     \* last year of the dates advanced

CalendarDays == 0 .. (DateToDays(MaxCalendarYear + 1, 1, 1) - 1)
CalendarClocks == {0, 125}

CalendarCalls ==
    {[fn |-> f, value |-> d * MinutesPerDay + c, count |-> 1] :
        f \in {"add_months", "add_years"}, d \in CalendarDays, c \in CalendarClocks}

CallAddMonths ==
    /\ call.fn = "add_months"
    /\ result = NoResult
    /\ result' = [fn |-> call.fn, value |-> add_months(call.value, call.count)]
    /\ UNCHANGED <<call, program_vars>>

CallAddYears ==
    /\ call.fn = "add_years"
    /\ result = NoResult
    /\ result' = [fn |-> call.fn, value |-> add_years(call.value, call.count)]
    /\ UNCHANGED <<call, program_vars>>

InitCalendar ==
    /\ InitProgram({}, FALSE, StartNow)
    /\ call \in CalendarCalls
    /\ result = NoResult

NextCalendar ==
    \/ CallAddMonths
    \/ CallAddYears

SpecCalendar == InitCalendar /\ [][NextCalendar]_vars

(***************************************************************************)
(* The decisions of one cycle for a profile and for the SSH task that have *)
(* the same schedule and the same history.  The call holds the profile row *)
(* as list_profiles returns it, the last Run, the last SystemRun and the   *)
(* time of the cycle; the SSH schedule is in table settings.  The cached   *)
(* markers last_scheduled_date (db.set_profile_last_scheduled) and         *)
(* ssh_last_scheduled_date (app.py, line 451) are rewritten between        *)
(* decisions; the result lists the decisions taken.                        *)
(***************************************************************************)

MaxDecisions == 2       \* decisions taken of each kind

DecisionNows == {StartNow + 59, StartNow + 60, StartNow + 600}  \* 01:59, 02:00, 11:00
DecisionScheduleTimes == {<<>>, HM(2, 0), HM(10, 30)}

\* status, started_at and finished_at of the most recent run: none, a success
\* of yesterday 02:05, a success of today 00:30, a failure that finished at
\* 23:20 or at 01:30, an unfinished run
DecisionHistories ==
    {[status |-> "none", started_at |-> NULL, finished_at |-> NULL],
     [status |-> "success", started_at |-> StartNow - 1440 + 65,
      finished_at |-> StartNow - 1440 + 70],
     [status |-> "success", started_at |-> StartNow - 30, finished_at |-> StartNow - 25],
     [status |-> "failed", started_at |-> StartNow - 120, finished_at |-> StartNow - 100],
     [status |-> "failed", started_at |-> StartNow + 20, finished_at |-> StartNow + 30],
     [status |-> "running", started_at |-> StartNow - 120, finished_at |-> NULL]}

\* the markers: never written, or the date of today
DecisionMarkers == {NULL, DateOf(StartNow + 60)}

\* the row of table runs with that history (None when there is none)
RunOfHistory(h) ==
    IF h.status = "none" THEN NoRun
    ELSE [profile_id |-> 1, triggered_by |-> "scheduler", started_at |-> h.started_at,
          finished_at |-> h.finished_at, status |-> h.status,
          message |-> IF h.status = "running" THEN "" ELSE "text"]

\* the row of table system_runs with that history
SystemRunOfHistory(h) ==
    IF h.status = "none" THEN NoSystemRun
    ELSE [task_type |-> "ssh", triggered_by |-> "scheduler", started_at |-> h.started_at,
          finished_at |-> h.finished_at, status |-> h.status,
          message |-> IF h.status = "running" THEN "" ELSE "text"]

DecisionCalls ==
    {[fn |-> "decision",
      profile |-> [id |-> 1, schedule_enabled |-> en, schedule_time |-> st,
                   schedule_frequency |-> f, last_scheduled_date |-> NULL],
      last_run |-> RunOfHistory(h),
      last_system_run |-> SystemRunOfHistory(h),
      now_utc |-> t] :
        en \in BOOLEAN, st \in DecisionScheduleTimes, f \in VALID_FREQUENCIES,
        h \in DecisionHistories, t \in DecisionNows}

\* table settings with the SSH schedule of the profile row
DecisionSettings(profile) ==
    [k \in {"scheduler_enabled", "ssh_schedule_enabled", "ssh_schedule_time",
            "ssh_schedule_frequency"} |->
        CASE k = "scheduler_enabled" -> "1"
          [] k = "ssh_schedule_enabled" -> (IF profile.schedule_enabled THEN "1" ELSE "0")
          [] k = "ssh_schedule_time" -> profile.schedule_time
          [] OTHER -> profile.schedule_frequency]

\* _run_cycle for the profile row of the call
DecideProfile ==
    /\ call.fn = "decision"
    /\ Len(result.profile) < MaxDecisions
    /\ result' = [result EXCEPT !.profile =
                     Append(@, [marker |-> call.profile.last_scheduled_date,
                                value |-> cycle_should_run(call.profile, call.last_run,
                                                           call.now_utc + tz, call.now_utc)])]
    /\ UNCHANGED <<call, program_vars>>

\* _run_ssh_schedule, called at line 151 with the current_time of the cycle
DecideSsh ==
    /\ call.fn = "decision"
    /\ Len(result.ssh) < MaxDecisions
    /\ result' = [result EXCEPT !.ssh =
                     Append(@, [marker |-> get_setting("ssh_last_scheduled_date", NULL),
                                value |-> ssh_should_run(call.last_system_run,
                                                         strftime_HM(call.now_utc + tz),
                                                         call.now_utc + tz, call.now_utc)])]
    /\ UNCHANGED <<call, program_vars>>

\* db.set_profile_last_scheduled: the marker of the profile row is rewritten
MarkProfile ==
    /\ call.fn = "decision"
    /\ \E d \in DecisionMarkers :
          call' = [call EXCEPT !.profile.last_scheduled_date = d]
    /\ UNCHANGED <<result, program_vars>>

\* app.py, line 451: db.set_setting("ssh_last_scheduled_date", today)
MarkSsh ==
    /\ call.fn = "decision"
    /\ \E d \in DecisionMarkers \ {NULL} :
          settings' = set_setting("ssh_last_scheduled_date", d)
    /\ UNCHANGED <<call_vars, queue_vars, profiles, runs, system_vars, sched_vars, now, tz, ret,
                   hist_vars>>

InitDecision ==
    /\ call \in DecisionCalls
    /\ result = [fn |-> "decision", profile |-> <<>>, ssh |-> <<>>]
    /\ settings = DecisionSettings(call.profile)
    /\ queue = <<>>
    /\ running_profiles = {}
    /\ worker_pc = "wait"
    /\ worker_item = NoItem
    /\ worker_run = 0
    /\ profiles = {1}
    /\ runs = <<>>
    /\ system_state = [t \in TaskTypes |-> FALSE]
    /\ runners = <<>>
    /\ system_runs = <<>>
    /\ sched_pc = "loop"
    /\ sched_todo = <<>>
    /\ sched_now = 0
    /\ now = StartNow
    /\ tz \in TzOffsets
    /\ ret = NoRet
    /\ accepted = <<>>
    /\ started = <<>>

NextDecision ==
    \/ DecideProfile
    \/ DecideSsh
    \/ MarkProfile
    \/ MarkSsh

SpecDecision == InitDecision /\ [][NextDecision]_vars

----------------------------------------------------------------------------
(* The SSH backup task (src/backup.py, SSHBackupRunner).  A server of the   *)
(* configuration carries what its host will answer: whether the connection  *)
(* succeeds, the exit status of each pre-command and whether each remote    *)
(* path downloads.  The events are the contacts made with the hosts.        *)

MaxServers == 2         \* servers of a configuration

\* _run_pre_commands that goes on after a nonzero exit status
RECURSIVE run_pre_commands_goes_on(_, _, _)
run_pre_commands_goes_on(commands, s, i) ==
    IF i > Len(commands) THEN [ok |-> TRUE, events |-> <<>>]
    ELSE IF commands[i].command = "" THEN run_pre_commands_goes_on(commands, s, i + 1)
    ELSE LET rest == run_pre_commands_goes_on(commands, s, i + 1)
         IN  [ok |-> rest.ok /\ commands[i].exit_status = 0,
              events |-> <<[op |-> "pre", server |-> s, index |-> i]>> \o rest.events]

\* SSHBackupRunner._run_pre_commands of server s, from command i on
RECURSIVE run_pre_commands(_, _, _)
run_pre_commands(commands, s, i) ==
    IF i > Len(commands) THEN [ok |-> TRUE, events |-> <<>>]
    ELSE IF commands[i].command = "" THEN run_pre_commands(commands, s, i + 1)
    ELSE IF commands[i].exit_status # 0
    THEN [ok |-> FALSE, events |-> <<[op |-> "pre", server |-> s, index |-> i]>>]
    ELSE LET rest == run_pre_commands(commands, s, i + 1)
         IN  [ok |-> rest.ok,
              events |-> <<[op |-> "pre", server |-> s, index |-> i]>> \o rest.events]

\* _backup_server, lines 308-331: the loop over remote_paths from path j on;
\* a path is what _download_remote_archive / _download_remote_path returns
RECURSIVE download_paths(_, _, _)
download_paths(remote_paths, s, j) ==
    IF j > Len(remote_paths) THEN [ok |-> TRUE, events |-> <<>>]
    ELSE IF ~remote_paths[j]
    THEN [ok |-> FALSE, events |-> <<[op |-> "path", server |-> s, index |-> j]>>]
    ELSE LET rest == download_paths(remote_paths, s, j + 1)
         IN  [ok |-> rest.ok,
              events |-> <<[op |-> "path", server |-> s, index |-> j]>> \o rest.events]

\* SSHBackupRunner._backup_server of server s
backup_server(server, s) ==
    LET connect == <<[op |-> "connect", server |-> s, index |-> 0]>>
        pre == run_pre_commands(server.pre_commands, s, 1)
        paths == download_paths(server.remote_paths, s, 1)
    IN  IF ~server.connect_ok
        THEN [status |-> "failed", message |-> "SSH connect failed", events |-> connect]
        ELSE IF server.pre_commands # <<>> /\ ~pre.ok
        THEN [status |-> "failed", message |-> "Pre-commands failed",
              events |-> connect \o pre.events]
        ELSE IF ~paths.ok
        THEN [status |-> "failed", message |-> "Failed to backup",
              events |-> connect \o pre.events \o paths.events]
        ELSE [status |-> "success", message |-> "SSH backup finished",
              events |-> connect \o pre.events \o paths.events]

\* the loop of run that goes on to the next server after a failure and
\* reports the last failure
RECURSIVE run_servers_goes_on(_, _)
run_servers_goes_on(servers, s) ==
    IF s > Len(servers)
    THEN [status |-> "success", message |-> "SSH backups completed", events |-> <<>>]
    ELSE IF ~servers[s].enabled THEN run_servers_goes_on(servers, s + 1)
    ELSE LET one == backup_server(servers[s], s)
             rest == run_servers_goes_on(servers, s + 1)
         IN  IF one.status # "success" /\ rest.status = "success"
             THEN [status |-> one.status, message |-> one.message,
                   events |-> one.events \o rest.events]
             ELSE [status |-> rest.status, message |-> rest.message,
                   events |-> one.events \o rest.events]

\* SSHBackupRunner.run, lines 256-263: the loop over the servers from s on
RECURSIVE run_servers(_, _)
run_servers(servers, s) ==
    IF s > Len(servers)
    THEN [status |-> "success", message |-> "SSH backups completed", events |-> <<>>]
    ELSE IF ~servers[s].enabled THEN run_servers(servers, s + 1)
    ELSE LET one == backup_server(servers[s], s)
         IN  IF one.status # "success" THEN one
             ELSE LET rest == run_servers(servers, s + 1)
                  IN  [status |-> rest.status, message |-> rest.message,
                       events |-> one.events \o rest.events]

\* SSHBackupRunner.run (paramiko installed)
SSHBackupRunner_run(config) ==
    IF config.servers = <<>>
    THEN [status |-> "failed", message |-> "No SSH servers configured", events |-> <<>>]
    ELSE IF config.local_backup_dir = ""
    THEN [status |-> "failed", message |-> "Missing local_backup_dir", events |-> <<>>]
    ELSE run_servers(config.servers, 1)

\* pre-commands: a command text ("" is skipped) and the exit status it will have
PreCommand(command, exit_status) == [command |-> command, exit_status |-> exit_status]

PreCommandLists ==
    {<<>>,
     <<PreCommand("a", 0), PreCommand("b", 0)>>,
     <<PreCommand("a", 1), PreCommand("b", 0)>>,
     <<PreCommand("", 0), PreCommand("a", 1), PreCommand("b", 0)>>}

RemotePathLists == {<<TRUE, TRUE>>, <<FALSE, TRUE>>, <<TRUE, FALSE>>}

\* the servers of a configuration: a disabled one, one whose connection
\* fails, and the ones that connect
Servers ==
    {[enabled |-> FALSE, connect_ok |-> TRUE, pre_commands |-> <<>>,
      remote_paths |-> <<TRUE, TRUE>>],
     [enabled |-> TRUE, connect_ok |-> FALSE, pre_commands |-> <<>>,
      remote_paths |-> <<TRUE, TRUE>>]}
    \cup
    {[enabled |-> TRUE, connect_ok |-> TRUE, pre_commands |-> pc, remote_paths |-> rp] :
        pc \in PreCommandLists, rp \in RemotePathLists}

RECURSIVE SeqsUpTo(_, _)
SeqsUpTo(S, n) ==
    IF n = 0 THEN {<<>>}
    ELSE LET shorter == SeqsUpTo(S, n - 1)
         IN  shorter \cup {Append(q, x) : q \in shorter, x \in S}

SshRunCalls ==
    {[fn |-> "SSHBackupRunner.run",
      config |-> [servers |-> sv, local_backup_dir |-> "/backups"]] :
        sv \in SeqsUpTo(Servers, MaxServers)}
    \cup
    {[fn |-> "SSHBackupRunner.run",
      config |-> [servers |-> <<sv>>, local_backup_dir |-> ""]] : sv \in Servers}

CallSshRun ==
    /\ call.fn = "SSHBackupRunner.run"
    /\ result = NoResult
    /\ result' = [fn |-> call.fn, value |-> SSHBackupRunner_run(call.config)]
    /\ UNCHANGED <<call, program_vars>>

InitSsh ==
    /\ InitProgram({}, FALSE, StartNow)
    /\ call \in SshRunCalls
    /\ result = NoResult

NextSsh == CallSshRun

SpecSsh == InitSsh /\ [][NextSsh]_vars

(***************************************************************************)
(* The sessions of one server (src/backup.py, _backup_server, lines        *)
(* 282-339).  Besides what SpecSsh gives a server, the host and the local  *)
(* disk decide whether open_sftp and the mkdir of the backup directory     *)
(* succeed and whether a call inside the try block raises.  The value is   *)
(* how _backup_server leaves and the state of the two sessions then.       *)
(***************************************************************************)

\* the statements of the try block, lines 304-334, and its finally clause,
\* lines 335-337: both sessions are closed however the block is left
try_block(server) ==
    LET body == backup_server(server, 1)
    IN  IF server.body_raises
        THEN [exit |-> "raise", status |-> "", ssh |-> "closed", sftp |-> "closed"]
        ELSE [exit |-> "return", status |-> body.status,
              ssh |-> "closed", sftp |-> "closed"]

\* _backup_server, lines 282-339, with the sessions: ssh.connect (282-286),
\* ssh.open_sftp (288) and backup_dir.mkdir (290) come before the try block
backup_server_sessions(server) ==
    IF ~server.connect_ok
    THEN [exit |-> "return", status |-> "failed", ssh |-> "none", sftp |-> "none"]
    ELSE IF ~server.sftp_ok
    THEN [exit |-> "raise", status |-> "", ssh |-> "open", sftp |-> "none"]
    ELSE IF ~server.mkdir_ok
    THEN [exit |-> "raise", status |-> "", ssh |-> "open", sftp |-> "open"]
    ELSE try_block(server)

SessionServers ==
    [enabled : {TRUE}, connect_ok : BOOLEAN, sftp_ok : BOOLEAN, mkdir_ok : BOOLEAN,
     body_raises : BOOLEAN, pre_commands : PreCommandLists,
     remote_paths : RemotePathLists]

SessionCalls == {[fn |-> "_backup_server", server |-> sv] : sv \in SessionServers}

CallBackupServer ==
    /\ call.fn = "_backup_server"
    /\ result = NoResult
    /\ result' = [fn |-> call.fn, value |-> backup_server_sessions(call.server)]
    /\ UNCHANGED <<call, program_vars>>

InitSession ==
    /\ InitProgram({}, FALSE, StartNow)
    /\ call \in SessionCalls
    /\ result = NoResult

NextSession == CallBackupServer

SpecSession == InitSession /\ [][NextSession]_vars

(***************************************************************************)
(* The download of one remote path (src/backup.py, lines 370-516).  The    *)
(* host of the call carries what its answers will be: whether tar creates  *)
(* the archive, whether sftp.get succeeds, what the privileged read        *)
(* returns, how the removal ends, what sftp.stat and sftp.listdir_attr     *)
(* give.  The value is how the function leaves (its return value, or an    *)
(* exception), the commands it issued and the lines it logged.             *)
(***************************************************************************)

\* SSHBackupRunner._download_remote_archive, lines 387-406: the archive is
\* created, fetched with sftp.get or, when that fails and sudo is on, read
\* with _sudo_cat and written; the finally clause calls _remote_rm, whose
\* exception (exec_command or the write to stdin raising) leaves the function
download_remote_archive(host, use_sudo) ==
    LET body == IF host.get_ok THEN [ok |-> TRUE, events |-> <<"get">>]
                ELSE IF ~use_sudo THEN [ok |-> FALSE, events |-> <<"get">>]
                ELSE IF host.cat = "empty" THEN [ok |-> FALSE, events |-> <<"get", "cat">>]
                ELSE [ok |-> TRUE, events |-> <<"get", "cat", "write">>]
    IN  IF ~host.create_ok
        THEN [exit |-> "return", ok |-> FALSE, events |-> <<"create">>]
        ELSE IF host.rm = "raises"
        THEN [exit |-> "raise", ok |-> FALSE,
              events |-> <<"create">> \o body.events \o <<"rm">>]
        ELSE [exit |-> "return", ok |-> body.ok,
              events |-> <<"create">> \o body.events \o <<"rm">>]

\* _download_file: sftp.get of one file
download_file(name, failing) ==
    IF name \in failing
    THEN [ok |-> FALSE, fetched |-> {}, log |-> {"Failed to download"}]
    ELSE [ok |-> TRUE, fetched |-> {name}, log |-> {}]

\* _download_directory, lines 440-456: returns nothing; a listing that fails
\* is logged, and so is each file that fails
download_directory(host) ==
    IF ~host.listdir_ok
    THEN [fetched |-> {}, log |-> {"Cannot access"}]
    ELSE [fetched |-> host.items \ host.failing,
          log |-> IF host.items \cap host.failing = {} THEN {} ELSE {"Failed to download"}]

\* SSHBackupRunner._download_remote_path, lines 418-438
download_remote_path(host, use_sudo) ==
    LET dir == download_directory(host)
        file == download_file("path", IF host.get_ok THEN {} ELSE {"path"})
    IN  IF host.stat = "ioerror" /\ (~use_sudo \/ ~host.sudo_exists)
        THEN [exit |-> "return", ok |-> FALSE, fetched |-> {},
              log |-> {"Remote path not accessible"}]
        ELSE IF host.stat \in {"ioerror", "dir"}
        THEN [exit |-> "return", ok |-> TRUE, fetched |-> dir.fetched, log |-> dir.log]
        ELSE [exit |-> "return", ok |-> file.ok, fetched |-> file.fetched, log |-> file.log]

ArchiveHosts ==
    [create_ok : BOOLEAN, get_ok : BOOLEAN, cat : {"data", "empty"},
     rm : {"ok", "fails", "raises"}]

\* a remote path: a file, a directory with its files, or a path sftp.stat
\* cannot reach; files `failing` cannot be read over sftp
PathHosts ==
    {[stat |-> st, sudo_exists |-> se, listdir_ok |-> lo, get_ok |-> go, items |-> it,
      failing |-> fl] :
        st \in {"file", "dir", "ioerror"}, se \in BOOLEAN, lo \in BOOLEAN, go \in BOOLEAN,
        it \in {{"a", "b"}}, fl \in SUBSET {"a", "b"}}

DownloadCalls ==
    {[fn |-> "_download_remote_archive", host |-> h, use_sudo |-> su] :
        h \in ArchiveHosts, su \in BOOLEAN}
    \cup
    {[fn |-> "_download_remote_path", host |-> h, use_sudo |-> su] :
        h \in PathHosts, su \in BOOLEAN}

CallDownloadArchive ==
    /\ call.fn = "_download_remote_archive"
    /\ result = NoResult
    /\ result' = [fn |-> call.fn, value |-> download_remote_archive(call.host, call.use_sudo)]
    /\ UNCHANGED <<call, program_vars>>

CallDownloadPath ==
    /\ call.fn = "_download_remote_path"
    /\ result = NoResult
    /\ result' = [fn |-> call.fn, value |-> download_remote_path(call.host, call.use_sudo)]
    /\ UNCHANGED <<call, program_vars>>

InitDownload ==
    /\ InitProgram({}, FALSE, StartNow)
    /\ call \in DownloadCalls
    /\ result = NoResult

NextDownload ==
    \/ CallDownloadArchive
    \/ CallDownloadPath

SpecDownload == InitDownload /\ [][NextDownload]_vars

----------------------------------------------------------------------------
(* The local backup (src/backup.py, run_profile_backup).  A path is the     *)
(* sequence of its components; the file system is the set of directories    *)
(* and the set of files.  A file of the source carries what will happen to  *)
(* it: whether a pattern excludes it, whether copy2 succeeds, and whether   *)
(* its copy has the size and the content of the source when it is verified. *)

MaxFiles == 2           \* files of a source tree
MaxBackups == 5         \* backup directories a destination holds before the run

\* Path.is_relative_to, on resolved paths
is_relative_to(path, other) ==
    Len(other) <= Len(path) /\ SubSeq(path, 1, Len(other)) = other

\* Path.mkdir(parents=True, exist_ok=True)
mkdir_parents(dirs, path) == dirs \cup {SubSeq(path, 1, k) : k \in 1..Len(path)}

\* the timestamp of a run started now (names of backup directories are numbers)
TimestampNow == MaxBackups + 1

\* the copy loop without the try/except of lines 135-140 around copy2, the
\* walk ending at the first file that fails: the files copied before it
copied_files_stop_at_error(files) ==
    {i \in DOMAIN files :
        /\ ~files[i].excluded /\ files[i].copy_ok
        /\ \A j \in 1..(i - 1) : files[j].excluded \/ files[j].copy_ok}

\* the copy loop, lines 118-140: the files that reach copy2, and its errors
Survivors(files) == {i \in DOMAIN files : ~files[i].excluded}
copy_errors(files) == Cardinality({i \in Survivors(files) : ~files[i].copy_ok})
copied_files(files) == {i \in Survivors(files) : files[i].copy_ok}

\* _verify_backup that compares sizes in hash mode too
verify_backup_sizes_only(files, mode) ==
    Cardinality({i \in DOMAIN files :
                    ~files[i].excluded /\ (~files[i].copy_ok \/ ~files[i].same_size)})

\* _verify_backup: the number of mismatches
verify_backup(files, mode) ==
    Cardinality({i \in Survivors(files) :
                    \/ ~files[i].copy_ok
                    \/ IF mode = "size" THEN ~files[i].same_size ELSE ~files[i].same_hash})

\* the directories right below dest_base
backup_dirs(dirs, dest_base) ==
    {d \in dirs : Len(d) = Len(dest_base) + 1 /\ is_relative_to(d, dest_base)}

\* shutil.rmtree: the file system without run_dir and what is below it
rmtree(fs, run_dir) ==
    [dirs |-> {d \in fs.dirs : ~is_relative_to(d, run_dir)},
     files |-> {f \in fs.files : ~is_relative_to(f, run_dir)}]

\* _apply_retention that removes the newest directories (runs[retention_count:])
apply_retention_removes_newest(fs, dest_base, retention_count, undeletable) ==
    LET run_dirs == backup_dirs(fs.dirs, dest_base)
        to_remove == {d \in run_dirs :
                        Cardinality({e \in run_dirs : e[Len(e)] < d[Len(d)]}) >= retention_count}
        gone == to_remove \ undeletable
    IN  IF Cardinality(run_dirs) <= retention_count THEN fs
        ELSE [dirs |-> {d \in fs.dirs : \A g \in gone : ~is_relative_to(d, g)},
              files |-> {f \in fs.files : \A g \in gone : ~is_relative_to(f, g)}]

\* _apply_retention: the file system after it; rmtree fails on `undeletable`
apply_retention(fs, dest_base, retention_count, undeletable) ==
    LET run_dirs == backup_dirs(fs.dirs, dest_base)
        to_remove == {d \in run_dirs :
                        Cardinality({e \in run_dirs : e[Len(e)] < d[Len(d)]})
                            < Cardinality(run_dirs) - retention_count}
        gone == to_remove \ undeletable
    IN  IF Cardinality(run_dirs) <= retention_count THEN fs
        ELSE [dirs |-> {d \in fs.dirs : \A g \in gone : ~is_relative_to(d, g)},
              files |-> {f \in fs.files : \A g \in gone : ~is_relative_to(f, g)}]

\* lines 150-153 with "and" for "or": failed only with errors and mismatches
outcome_needs_both(errors, mismatches, copied, skipped) ==
    IF errors > 0 /\ mismatches > 0
    THEN [status |-> "failed", message |-> "Completed with errors and mismatches",
          errors |-> errors, mismatches |-> mismatches]
    ELSE [status |-> "success", message |-> "Completed", copied |-> copied,
          skipped |-> skipped]

\* run_profile_backup, lines 150-153: status and message
outcome(errors, mismatches, copied, skipped) ==
    IF errors > 0 \/ mismatches > 0
    THEN [status |-> "failed", message |-> "Completed with errors and mismatches",
          errors |-> errors, mismatches |-> mismatches]
    ELSE [status |-> "success", message |-> "Completed", copied |-> copied,
          skipped |-> skipped]

\* run_profile_backup: the outcome and the file system after the run
run_profile_backup(profile, fs, files, undeletable) ==
    LET source == profile.source_path
        dest_base == Append(profile.dest_path, profile.name)
        dest_root == Append(dest_base, TimestampNow)
        made == [fs EXCEPT !.dirs = mkdir_parents(fs.dirs, dest_base)]
        copied == [dirs |-> mkdir_parents(made.dirs, dest_root),
                   files |-> made.files \cup
                             {Append(dest_root, files[i].name) : i \in copied_files(files)}]
        mismatches == IF profile.verify_mode \in {"size", "hash"}
                      THEN verify_backup(files, profile.verify_mode) ELSE 0
        kept == IF profile.retention_count > 0
                THEN apply_retention(copied, dest_base, profile.retention_count, undeletable)
                ELSE copied
    IN  IF source \notin fs.dirs
        THEN [outcome |-> [status |-> "failed", message |-> "Source path does not exist"],
              fs |-> fs]
        ELSE IF is_relative_to(dest_base, source)
        THEN [outcome |-> [status |-> "failed",
                           message |-> "Destination cannot be inside source"],
              fs |-> made]
        ELSE [outcome |-> outcome(copy_errors(files), mismatches,
                                  Cardinality(copied_files(files)),
                                  Len(files) - Cardinality(Survivors(files))),
              fs |-> kept]

\* what may happen to a file of the source
FileKinds ==
    {[excluded |-> FALSE, copy_ok |-> TRUE, same_size |-> TRUE, same_hash |-> TRUE],
     [excluded |-> TRUE, copy_ok |-> FALSE, same_size |-> FALSE, same_hash |-> FALSE],
     [excluded |-> FALSE, copy_ok |-> FALSE, same_size |-> FALSE, same_hash |-> FALSE],
     [excluded |-> FALSE, copy_ok |-> TRUE, same_size |-> FALSE, same_hash |-> FALSE],
     [excluded |-> FALSE, copy_ok |-> TRUE, same_size |-> TRUE, same_hash |-> FALSE]}

\* the source trees: up to n files, file i named i
RECURSIVE FileLists(_)
FileLists(n) ==
    IF n = 0 THEN {<<>>}
    ELSE LET shorter == FileLists(n - 1)
         IN  shorter \cup
             {Append(q, [name |-> Len(q) + 1, excluded |-> k.excluded, copy_ok |-> k.copy_ok,
                         same_size |-> k.same_size, same_hash |-> k.same_hash]) :
                 q \in {x \in shorter : Len(x) = n - 1}, k \in FileKinds}

VerifyModes == {"none", "size", "hash"}

\* /data is the source; /gone does not exist
SourcePaths == {<<"data">>, <<"gone">>}
\* /mnt is outside the source, /data and /data/sub are inside it, and / with
\* the profile name "data" is the source itself
DestPaths == {<<"mnt">>, <<"data">>, <<"data", "sub">>, <<>>}
ProfileNames == {"p", "data"}

BaseDirs == {<<"data">>, <<"data", "sub">>, <<"mnt">>}

\* the file system before the run: the base directories and the first n
\* backups of profile p below /mnt/p, each with one file
FsWithBackups(n) ==
    [dirs |-> BaseDirs \cup (IF n = 0 THEN {} ELSE {<<"mnt", "p">>})
                       \cup {<<"mnt", "p", b>> : b \in 1..n},
     files |-> {<<"data", 1>>} \cup {<<"mnt", "p", b, 1>> : b \in 1..n}]

\* runs over every source tree and verify mode, with every source and
\* destination, no retention
CopyCalls ==
    {[fn |-> "run_profile_backup",
      profile |-> [source_path |-> sp, dest_path |-> dp, name |-> nm, verify_mode |-> vm,
                   retention_count |-> 0],
      fs |-> FsWithBackups(0), files |-> fl, undeletable |-> {}] :
        sp \in SourcePaths, dp \in DestPaths, nm \in ProfileNames, vm \in VerifyModes,
        fl \in FileLists(MaxFiles)}

\* runs over every number of earlier backups and every retention_count, some
\* with a directory rmtree cannot remove
RetentionCalls ==
    {[fn |-> "run_profile_backup",
      profile |-> [source_path |-> sp, dest_path |-> <<"mnt">>, name |-> "p",
                   verify_mode |-> "size", retention_count |-> rc],
      fs |-> FsWithBackups(n), files |-> fl, undeletable |-> ud] :
        sp \in SourcePaths, rc \in 0..(MaxBackups + 1), n \in 0..MaxBackups,
        fl \in FileLists(1), ud \in {{}, {<<"mnt", "p", 1>>}}}

CallRunProfileBackup ==
    /\ call.fn = "run_profile_backup"
    /\ result = NoResult
    /\ result' = [fn |-> call.fn,
                  value |-> run_profile_backup(call.profile, call.fs, call.files,
                                               call.undeletable)]
    /\ UNCHANGED <<call, program_vars>>

InitLocal ==
    /\ InitProgram({}, FALSE, StartNow)
    /\ call \in CopyCalls \cup RetentionCalls
    /\ result = NoResult

NextLocal == CallRunProfileBackup

SpecLocal == InitLocal /\ [][NextLocal]_vars

(* Retention over a destination whose directories have any names: names   *)
(* that sort before the timestamp of the run (earlier backups) and names   *)
(* that sort after it (a directory called "old" or "manual", a backup      *)
(* stamped by a clock that was ahead).                                     *)
EarlierNames == {1, 2}
LaterNames == {TimestampNow + 1, TimestampNow + 2}

\* the file system before the run: a backup directory of each name below
\* /mnt/p, each with one file
FsWithNames(names) ==
    [dirs |-> BaseDirs \cup {<<"mnt", "p">>} \cup {<<"mnt", "p", b>> : b \in names},
     files |-> {<<"data", 1>>} \cup {<<"mnt", "p", b, 1>> : b \in names}]

NamedRetentionCalls ==
    {[fn |-> "run_profile_backup",
      profile |-> [source_path |-> <<"data">>, dest_path |-> <<"mnt">>, name |-> "p",
                   verify_mode |-> "size", retention_count |-> rc],
      fs |-> FsWithNames(names), files |-> fl, undeletable |-> {}] :
        rc \in 0..3, names \in SUBSET (EarlierNames \cup LaterNames), fl \in FileLists(1)}

InitRetention ==
    /\ InitProgram({}, FALSE, StartNow)
    /\ call \in NamedRetentionCalls
    /\ result = NoResult

NextRetention == CallRunProfileBackup

SpecRetention == InitRetention /\ [][NextRetention]_vars

(***************************************************************************)
(* The two walks over the source tree (src/backup.py: the copy loop of     *)
(* run_profile_backup, lines 117-140, and _verify_backup, lines 183-206).  *)
(* Paths are relative to the source: the sequence of their names, <<>> for *)
(* the source itself.  A tree is its set of files; its directories are the *)
(* ones that hold them.                                                    *)
(***************************************************************************)

\* os.path.dirname of a relative path
Parent(path) == SubSeq(path, 1, Len(path) - 1)

\* the names that end with ".tmp"
TmpNames == {"x.tmp", "a.tmp"}

\* fnmatch.fnmatch(path, pattern) for the patterns of the model; "*" of a
\* pattern matches any characters, "/" included
fnmatch(path, pattern) ==
    CASE pattern = "*" -> TRUE
      [] pattern = "*.tmp" -> path # <<>> /\ path[Len(path)] \in TmpNames
      [] pattern = "logs/*" -> Len(path) >= 2 /\ path[1] = "logs"
      [] OTHER -> path = <<pattern>>

\* _should_exclude: the path or its base name matches a pattern
should_exclude(path, patterns) ==
    IF path = <<>> THEN FALSE
    ELSE \E pattern \in patterns :
            fnmatch(path, pattern) \/ fnmatch(<<path[Len(path)]>>, pattern)

\* the directories and the files os.walk lists for directory root
DirsOf(tree) == UNION {{SubSeq(f, 1, k) : k \in 1..(Len(f) - 1)} : f \in tree}
SubDirs(tree, root) == {d \in DirsOf(tree) : Parent(d) = root}
FilesIn(tree, root) == {f \in tree : Parent(f) = root}

\* the copy loop with `continue` alone at line 121-123 (dirs[:] = [] dropped):
\* the walk goes on below an excluded directory
RECURSIVE copy_walk_descends(_, _, _)
RECURSIVE copy_walk_dirs_descends(_, _, _)
copy_walk_dirs_descends(tree, patterns, subdirs) ==
    IF subdirs = {} THEN [attempted |-> {}, skipped |-> 0]
    ELSE LET d == CHOOSE x \in subdirs : TRUE
             one == copy_walk_descends(tree, patterns, d)
             rest == copy_walk_dirs_descends(tree, patterns, subdirs \ {d})
         IN  [attempted |-> one.attempted \cup rest.attempted,
              skipped |-> one.skipped + rest.skipped]

copy_walk_descends(tree, patterns, root) ==
    LET below == copy_walk_dirs_descends(tree, patterns, SubDirs(tree, root))
        excluded == {f \in FilesIn(tree, root) : should_exclude(f, patterns)}
    IN  IF should_exclude(root, patterns)
        THEN [attempted |-> below.attempted, skipped |-> 1 + below.skipped]
        ELSE [attempted |-> (FilesIn(tree, root) \ excluded) \cup below.attempted,
              skipped |-> Cardinality(excluded) + below.skipped]

\* run_profile_backup, lines 117-140: os.walk from directory root down; the
\* files that reach copy2 and the value of skipped
RECURSIVE copy_walk(_, _, _)
RECURSIVE copy_walk_dirs(_, _, _)
copy_walk_dirs(tree, patterns, subdirs) ==
    IF subdirs = {} THEN [attempted |-> {}, skipped |-> 0]
    ELSE LET d == CHOOSE x \in subdirs : TRUE
             one == copy_walk(tree, patterns, d)
             rest == copy_walk_dirs(tree, patterns, subdirs \ {d})
         IN  [attempted |-> one.attempted \cup rest.attempted,
              skipped |-> one.skipped + rest.skipped]

copy_walk(tree, patterns, root) ==
    IF should_exclude(root, patterns)
    THEN [attempted |-> {}, skipped |-> 1]
    ELSE LET below == copy_walk_dirs(tree, patterns, SubDirs(tree, root))
             excluded == {f \in FilesIn(tree, root) : should_exclude(f, patterns)}
         IN  [attempted |-> (FilesIn(tree, root) \ excluded) \cup below.attempted,
              skipped |-> Cardinality(excluded) + below.skipped]

\* _verify_backup, lines 183-193: os.walk from directory root down; the files
\* it compares.  An excluded directory is passed over with `continue`, its
\* subdirectories are still walked
RECURSIVE verify_walk(_, _, _)
RECURSIVE verify_walk_dirs(_, _, _)
verify_walk_dirs(tree, patterns, subdirs) ==
    IF subdirs = {} THEN {}
    ELSE LET d == CHOOSE x \in subdirs : TRUE
         IN  verify_walk(tree, patterns, d) \cup verify_walk_dirs(tree, patterns, subdirs \ {d})

verify_walk(tree, patterns, root) ==
    LET below == verify_walk_dirs(tree, patterns, SubDirs(tree, root))
    IN  IF should_exclude(root, patterns) THEN below
        ELSE {f \in FilesIn(tree, root) : ~should_exclude(f, patterns)} \cup below

\* the copy and the verification of a run (mode size or hash) over a source
\* that does not change: copy2 fails on the files `failing`; a file that was
\* copied compares equal, a file that is not at the destination is a mismatch
walk_source(tree, patterns, failing) ==
    LET walk == copy_walk(tree, patterns, <<>>)
        copied == walk.attempted \ failing
        checked == verify_walk(tree, patterns, <<>>)
    IN  [attempted |-> walk.attempted, copied |-> copied, skipped |-> walk.skipped,
         errors |-> Cardinality(walk.attempted \cap failing),
         checked |-> checked, mismatches |-> Cardinality(checked \ copied)]

TreeFiles ==
    {<<"notes.txt">>, <<"a.tmp">>, <<"data", "readme.md">>, <<"logs", "x.tmp">>,
     <<"logs", "sub", "a.txt">>}

Patterns == {"*.tmp", "logs", "sub", "logs/*", "*"}

WalkCalls ==
    {[fn |-> "walk", tree |-> t, patterns |-> ps, failing |-> fl] :
        t \in SUBSET TreeFiles, ps \in SUBSET Patterns,
        fl \in {{}, {<<"data", "readme.md">>}}}

CallWalk ==
    /\ call.fn = "walk"
    /\ result = NoResult
    /\ result' = [fn |-> call.fn,
                  value |-> walk_source(call.tree, call.patterns, call.failing)]
    /\ UNCHANGED <<call, program_vars>>

InitWalk ==
    /\ InitProgram({}, FALSE, StartNow)
    /\ call \in WalkCalls
    /\ result = NoResult

NextWalk == CallWalk

SpecWalk == InitWalk /\ [][NextWalk]_vars

----------------------------------------------------------------------------
(* Claims *)

Terminal == {"success", "failed"}
JobPcs == {"get_profile", "create_run", "engine", "finally", "finally_raise"}

\* an enqueue call is a step that changes `ret` to an enqueue result or that
\* lengthens the queue; ret'.arg is the profile it was called for
EnqueueCalled == (ret' # ret /\ ret'.op = "enqueue") \/ Len(queue') > Len(queue)

\* C1: in every reachable state each profile_id occurs at most once in the
\* queue and never both in the queue and in the running set
C1_SingleFlight ==
    /\ \A i, j \in DOMAIN queue : i # j => queue[i].profile_id # queue[j].profile_id
    /\ QueuedIds \cap running_profiles = {}

\* C1 witness: a scheduler item waits in the queue behind nothing while another
\* profile runs, and an enqueue for the running profile was just turned down
C1_Witness ==
    /\ running_profiles = {2}
    /\ Len(queue) = 1 /\ queue[1] = [profile_id |-> 1, triggered_by |-> "scheduler"]
    /\ ret = [op |-> "enqueue", arg |-> 2, result |-> FALSE]

\* C2: an enqueue call for a profile that is running or queued returns false
\* and leaves the queue and the running set as they were; the queue grows
\* only by a call that returns true for a profile neither queued nor running
C2_RejectIsNoOp ==
    [][/\ (EnqueueCalled /\ ret'.arg \in running_profiles \cup QueuedIds)
            => (ret'.result = FALSE /\ queue' = queue /\ running_profiles' = running_profiles)
       /\ Len(queue') > Len(queue)
            => (ret'.result = TRUE /\ ret'.arg \notin running_profiles \cup QueuedIds
                /\ Len(queue') = Len(queue) + 1)]_vars

\* C2 witness: the second of two enqueue calls for profile 1, made before the
\* worker took the first, returned false and the queue holds one entry
C2_Witness ==
    /\ ret = [op |-> "enqueue", arg |-> 1, result |-> FALSE]
    /\ Len(queue) = 1 /\ queue[1].profile_id = 1
    /\ started = <<>>

\* a job of profile p is in flight from its acceptance to the end of the
\* worker's cleanup
InFlight(p) == p \in QueuedIds \/ (worker_pc \in JobPcs /\ worker_item.profile_id = p)

\* C3: every enqueue call for p returns false exactly while a job of p is in
\* flight (queued, or taken by the worker and not yet cleaned up), and true
\* otherwise, in particular after the job has completed
C3_FalseWhileInFlight ==
    [][EnqueueCalled => (ret'.result = ~InFlight(ret'.arg))]_vars

\* C3 witness: profile 1 ran to completion and a later enqueue for it was
\* accepted
C3_Witness ==
    /\ \E i \in DOMAIN runs : runs[i].profile_id = 1 /\ runs[i].status \in Terminal
    /\ worker_pc = "wait"
    /\ ret = [op |-> "enqueue", arg |-> 1, result |-> TRUE]
    /\ QueuedIds = {1}

\* C4: the running set never holds two ids, and the worker takes a job only
\* when the running set is empty
C4_OneJobAtATime ==
    /\ [](Cardinality(running_profiles) <= 1)
    /\ [][started' # started => (running_profiles = {} /\ Cardinality(running_profiles') = 1)]_vars

\* C4 witness: the worker runs its second job while a third waits
C4_Witness ==
    /\ Len(started) = 2
    /\ Cardinality(running_profiles) = 1
    /\ worker_pc = "engine"
    /\ queue # <<>>

IsPrefix(a, b) == Len(a) <= Len(b) /\ SubSeq(b, 1, Len(a)) = a

\* C5: the worker starts jobs in the order enqueue accepted them, and
\* status().queued lists the accepted ids not yet started, in that order
C5_Fifo ==
    /\ IsPrefix(started, accepted)
    /\ status.queued = SubSeq(accepted, Len(started) + 1, Len(accepted))

\* C5 witness: profile 2 was accepted before profile 1 and started before it,
\* and another accepted job waits
C5_Witness ==
    /\ Len(started) >= 2 /\ started[1] = 2 /\ started[2] = 1
    /\ Len(status.queued) = 1

RunningRunsOf(p) == {i \in DOMAIN runs : runs[i].profile_id = p /\ runs[i].status = "running"}

\* C6: at any instant at most one Run of a profile has status "running"
C6_OneRunningRunPerProfile ==
    \A p \in ProfileIds : Cardinality(RunningRunsOf(p)) <= 1

\* C6 witness: a second Run of profile 1 is running, started by the scheduler
\* after a manual one ended
C6_Witness ==
    /\ Len(runs) >= 2
    /\ runs[1].profile_id = 1 /\ runs[1].status \in Terminal /\ runs[1].triggered_by = "manual"
    /\ runs[2].profile_id = 1 /\ runs[2].status = "running" /\ runs[2].triggered_by = "scheduler"

\* the rows the tables can hold: a Run per accepted manual job and one for the
\* scheduled job; a SystemRun per system task
MaxRunRows == MaxJobs + 1
MaxSystemRows == MaxSystemTasks

RowIs(table, r, statuses) == r \in DOMAIN table /\ table[r].status \in statuses
RowFinished(table, r) == r \in DOMAIN table /\ table[r].finished_at # NULL

C8_WorkerSurvivesErrors == worker_pc # "dead"

RunnersOf(t) == {i \in DOMAIN runners : runners[i].task_type = t}

\* C9: at most one runner of a task type is alive at a time; a request for a
\* task type whose flag is set returns false and starts nothing, and a runner
\* is started only for a task type whose flag was clear
C9_OneTaskPerType ==
    /\ [](\A t \in TaskTypes : Cardinality(RunnersOf(t)) <= 1)
    /\ [][/\ (ret' # ret /\ ret'.op = "run_system_task" /\ system_state[ret'.arg])
               => (ret'.result = FALSE /\ UNCHANGED <<system_state, runners, system_runs>>)
          /\ Len(runners') > Len(runners)
               => (ret'.result = TRUE /\ ~system_state[ret'.arg])]_vars

\* C9 witness: the scheduler's ssh task and a manual samba task are alive and
\* a manual ssh request was turned down
C9_Witness ==
    /\ \E i \in DOMAIN runners :
          runners[i].task_type = "ssh" /\ runners[i].triggered_by = "scheduler"
    /\ \E i \in DOMAIN runners :
          runners[i].task_type = "samba" /\ runners[i].triggered_by = "manual"
    /\ ret = [op |-> "run_system_task", arg |-> "ssh", result |-> FALSE]

\* the profile at the head of the cycle's list has no run, its schedule time
\* has come and no job of it is in flight
FirstRunDue(p) ==
    /\ ProfileRow(p).schedule_enabled
    /\ ~StrLess(strftime_HM(sched_now + tz), ProfileRow(p).schedule_time)
    /\ \A i \in DOMAIN runs : runs[i].profile_id # p
    /\ ~InFlight(p)

\* C10: a loop iteration that reads a flag other than "1" enqueues nothing,
\* invokes no SSH callback and waits again; one that reads "1" runs the cycle,
\* which queues a due profile; the scheduler enqueues and starts the SSH task
\* only inside a cycle; an enqueue call outside the cycle (a manual one) is
\* answered as ever
C10_FlagGatesScheduler ==
    [][/\ (sched_pc = "loop" /\ sched_pc' # "loop" /\ settings["scheduler_enabled"] # "1")
            => (sched_pc' = "wait"
                /\ UNCHANGED <<queue, accepted, runs, system_state, runners, system_runs>>)
       /\ (sched_pc = "loop" /\ sched_pc' # "loop" /\ settings["scheduler_enabled"] = "1")
            => (sched_pc' = "cycle" /\ sched_todo' = list_profiles)
       /\ (sched_pc = "cycle" /\ sched_todo # <<>> /\ sched_todo' # sched_todo
             /\ FirstRunDue(Head(sched_todo)))
            => (Head(sched_todo) \in QueuedIds'
                /\ queue'[Len(queue')].triggered_by = "scheduler")
       /\ (Len(queue') > Len(queue) /\ queue'[Len(queue')].triggered_by = "scheduler")
            => sched_pc = "cycle"
       /\ (Len(runners') > Len(runners) /\ runners'[Len(runners')].triggered_by = "scheduler")
            => sched_pc = "cycle"
       /\ (EnqueueCalled /\ sched_pc # "cycle") => (ret'.result = ~InFlight(ret'.arg))]_vars

\* C10 witness: with the flag at "0" the loop made an iteration and waits, no
\* scheduled job and no SSH task exists at the scheduled minute, and a manual
\* enqueue was accepted
C10_Witness ==
    /\ settings["scheduler_enabled"] = "0"
    /\ sched_pc = "wait"
    /\ accepted = <<2>>
    /\ queue = <<[profile_id |-> 2, triggered_by |-> "manual"]>>
    /\ ret = [op |-> "enqueue", arg |-> 2, result |-> TRUE]
    /\ runners = <<>> /\ system_runs = <<>>

\* the minutes since midnight a clock text "HH:MM" denotes
ClockMinutes(text) == (text[1] * 10 + text[2]) * 60 + text[4] * 10 + text[5]

Min(a, b) == IF a < b THEN a ELSE b

\* the last success started today at a clock time before schedule_time
StartedTodayBeforeSchedule(c) ==
    /\ DateOf(c.last_started_local) = DateOf(c.now_local)
    /\ ClockOf(c.last_started_local) < ClockMinutes(c.schedule_time)

\* n is the start date of `last` advanced by one period of `frequency`, with
\* the clock at `clock`
IsNextInstant(n, last, clock, frequency) ==
    LET a == DaysToDate(DateOf(last))
        b == DaysToDate(DateOf(n))
    IN  /\ ClockOf(n) = clock
        /\ CASE frequency = "day" -> DateOf(n) = DateOf(last) + 1
              [] frequency = "week" -> DateOf(n) = DateOf(last) + 7
              [] frequency = "month" ->
                    /\ b.year * 12 + b.month = a.year * 12 + a.month + 1
                    /\ b.day = Min(a.day, monthrange(b.year, b.month))
              [] OTHER ->
                    /\ b.year = a.year + 1 /\ b.month = a.month
                    /\ b.day = Min(a.day, monthrange(b.year, b.month))

\* C11: when the last success did not start today before schedule_time, the
\* decision is "due" iff now has reached the next instant: the last start date
\* plus one day, seven days, one calendar month or one calendar year, at
\* schedule_time
C11_DueFromNextInstant ==
    (result.fn = "is_due_from_last_success" /\ ~StartedTodayBeforeSchedule(call))
        => (result.value = "due"
              <=> \E d \in 0..DateOf(call.now_local) :
                     LET n == d * MinutesPerDay + ClockMinutes(call.schedule_time)
                     IN  /\ n <= call.now_local
                         /\ IsNextInstant(n, call.last_started_local,
                                          ClockMinutes(call.schedule_time), call.frequency))

\* C11 witness: month frequency, last success on 2024-01-31 at 02:05, now
\* 2024-02-29 at 02:00: due
C11_Witness ==
    /\ result.fn = "is_due_from_last_success" /\ result.value = "due"
    /\ call.frequency = "month"
    /\ call.last_started_local = 30 * MinutesPerDay + 125
    /\ call.now_local = 59 * MinutesPerDay + 120

\* C12: when the last success started today before schedule_time, the
\* decision is "due" iff the clock has reached schedule_time, for every
\* frequency
C12_UnconsumedSlot ==
    (result.fn = "is_due_from_last_success" /\ StartedTodayBeforeSchedule(call))
        => (result.value = "due" <=> ClockOf(call.now_local) >= ClockMinutes(call.schedule_time))

\* C12 witness: year frequency, last success today at 01:00, now 02:00: due
C12_Witness ==
    /\ result.fn = "is_due_from_last_success" /\ result.value = "due"
    /\ call.frequency = "year"
    /\ DateOf(call.last_started_local) = DateOf(call.now_local)
    /\ ClockOf(call.last_started_local) = 60
    /\ ClockOf(call.now_local) = 120

\* the last Run of the call failed and has a finished_at
LastRunFailed == call.last_run.status = "failed" /\ call.last_run.finished_at # NULL

\* C13 as stated: a cycle passes a profile whose last Run failed to enqueue
\* iff at least one hour has passed since finished_at
C13_RetryAfterOneHour ==
    (result.fn = "run_cycle" /\ LastRunFailed)
        => (result.value <=> call.now_utc - call.last_run.finished_at >= 60)

\* C13 amended: a cycle passes a profile whose last Run failed to enqueue iff
\* at least one hour has passed since finished_at and the local clock has
\* reached schedule_time
C13_RetryAfterOneHourAtScheduleTime ==
    (result.fn = "run_cycle" /\ LastRunFailed)
        => (result.value <=>
              /\ call.now_utc - call.last_run.finished_at >= 60
              /\ ClockOf(call.now_utc + tz) >= ClockMinutes(call.profile.schedule_time))

\* C13 witness: the last Run failed and finished at 01:30, the cycle runs at
\* 03:00 and passes the profile to enqueue
C13_Witness ==
    /\ result.fn = "run_cycle" /\ result.value = TRUE
    /\ call.last_run.status = "failed"
    /\ call.last_run.finished_at = StartNow + 30
    /\ call.now_utc = StartNow + 120

\* C14: a cycle never dispatches a profile, nor the SSH task, whose last run
\* is not a success and has no finished_at
C14_NeverRetryUnfinished ==
    (result.fn \in {"run_cycle", "run_ssh_schedule"}
       /\ call.last_run.status # "success" /\ call.last_run.finished_at = NULL)
        => result.value = FALSE

\* C14 witness: a day after a Run that never finished, past schedule_time, the
\* cycle does not dispatch the profile
C14_Witness ==
    /\ result.fn = "run_cycle" /\ result.value = FALSE
    /\ call.last_run.status = "running" /\ call.last_run.finished_at = NULL
    /\ call.now_utc = StartNow + 30 + 1440

\* the events of the SSH task and the servers it was given
SshEvents == result.value.events
SshServers == call.config.servers

\* the host of a server answers every contact well
ServerOk(server) ==
    /\ server.connect_ok
    /\ \A k \in DOMAIN server.pre_commands :
          server.pre_commands[k].command # "" => server.pre_commands[k].exit_status = 0
    /\ \A j \in DOMAIN server.remote_paths : server.remote_paths[j]

\* event e is a pre-command that exited nonzero
ExitFailed(e) ==
    e.op = "pre" /\ SshServers[e.server].pre_commands[e.index].exit_status # 0

\* C18: the pre-commands of a server run in configured order, none left out,
\* before any of its paths is transferred; a pre-command that exits nonzero is
\* the last contact with that server and the outcome is "Pre-commands failed"
C18_PreCommandsFirst ==
    result.fn = "SSHBackupRunner.run" =>
        \A i \in DOMAIN SshEvents :
            LET e == SshEvents[i]
                commands == SshServers[e.server].pre_commands
            IN  /\ \A j \in DOMAIN SshEvents :
                      (i < j /\ SshEvents[j].server = e.server /\ SshEvents[j].op = "pre")
                          => (e.op # "path" /\ (e.op = "pre" => e.index < SshEvents[j].index))
                /\ e.op = "pre" =>
                      \A k \in 1..(e.index - 1) :
                          commands[k].command # "" =>
                              \E j \in 1..(i - 1) :
                                  SshEvents[j] = [op |-> "pre", server |-> e.server, index |-> k]
                /\ e.op = "path" =>
                      \A k \in DOMAIN commands :
                          commands[k].command # "" =>
                              /\ commands[k].exit_status = 0
                              /\ \E j \in 1..(i - 1) :
                                    SshEvents[j] = [op |-> "pre", server |-> e.server, index |-> k]
                /\ ExitFailed(e) =>
                      /\ \A j \in DOMAIN SshEvents : j > i => SshEvents[j].server # e.server
                      /\ result.value.status = "failed"
                      /\ result.value.message = "Pre-commands failed"

\* C18 witness: the second server's first pre-command exits nonzero after the
\* first server ran both pre-commands and both paths
C18_Witness ==
    /\ result.fn = "SSHBackupRunner.run"
    /\ result.value.message = "Pre-commands failed"
    /\ Len(SshEvents) = 7
    /\ SshEvents[7] = [op |-> "pre", server |-> 2, index |-> 1]
    /\ Len(SshServers[2].pre_commands) = 2

\* C19: the task returns success only if every enabled server answers every
\* contact well; the servers are contacted in configuration order, every
\* enabled one up to the first that fails and none after it; within a server
\* no path is transferred after the first one that fails
C19_AllOrFirstFailure ==
    (result.fn = "SSHBackupRunner.run" /\ call.config.local_backup_dir # "") =>
        /\ result.value.status = "success" =>
              \A s \in DOMAIN SshServers : SshServers[s].enabled => ServerOk(SshServers[s])
        /\ \A i, j \in DOMAIN SshEvents : i < j => SshEvents[i].server <= SshEvents[j].server
        /\ \A s \in DOMAIN SshServers :
              (SshServers[s].enabled /\ ~ServerOk(SshServers[s]))
                  => /\ result.value.status = "failed"
                     /\ \A i \in DOMAIN SshEvents : SshEvents[i].server <= s
        /\ \A s \in DOMAIN SshServers :
              (/\ SshServers[s].enabled
               /\ \A t \in 1..(s - 1) : SshServers[t].enabled => ServerOk(SshServers[t]))
                  => \E i \in DOMAIN SshEvents :
                        SshEvents[i] = [op |-> "connect", server |-> s, index |-> 0]
        /\ \A i \in DOMAIN SshEvents :
              (SshEvents[i].op = "path"
                 /\ ~SshServers[SshEvents[i].server].remote_paths[SshEvents[i].index])
                  => \A j \in DOMAIN SshEvents : j > i => SshEvents[j].server # SshEvents[i].server

\* C19 witness: the first server's first path fails; its second path and the
\* second, enabled, server are never contacted
C19_Witness ==
    /\ result.fn = "SSHBackupRunner.run"
    /\ result.value.status = "failed" /\ result.value.message = "Failed to backup"
    /\ Len(SshServers) = 2 /\ SshServers[2].enabled
    /\ SshServers[1].pre_commands = <<>>
    /\ SshEvents = <<[op |-> "connect", server |-> 1, index |-> 0],
                     [op |-> "path", server |-> 1, index |-> 1]>>

\* C20: when the connection to an enabled server fails, or one of its
\* pre-commands exits nonzero, every other enabled server is still contacted
C20_FailureIsolated ==
    (result.fn = "SSHBackupRunner.run" /\ call.config.local_backup_dir # "") =>
        \A s, t \in DOMAIN SshServers :
            (/\ s # t
             /\ SshServers[s].enabled
             /\ SshServers[t].enabled
             /\ \/ ~SshServers[s].connect_ok
                \/ \E k \in DOMAIN SshServers[s].pre_commands :
                      /\ SshServers[s].pre_commands[k].command # ""
                      /\ SshServers[s].pre_commands[k].exit_status # 0)
                => \E i \in DOMAIN SshEvents :
                      SshEvents[i] = [op |-> "connect", server |-> t, index |-> 0]

\* the run got past the test of the source and the test of the destination
PassedPreflight ==
    /\ call.profile.source_path \in call.fs.dirs
    /\ ~is_relative_to(Append(call.profile.dest_path, call.profile.name),
                       call.profile.source_path)

\* the files of the call that no pattern excludes
Surviving == {i \in DOMAIN call.files : ~call.files[i].excluded}

\* the per-file copy errors of the run: a run stopped before its copy loop
\* has none
CopyErrors ==
    IF PassedPreflight THEN Cardinality({i \in Surviving : ~call.files[i].copy_ok}) ELSE 0

\* the verification mismatches of the run: none without verification; else a
\* surviving file with no copy, or a copy of another size (size mode) or of
\* another content (hash mode)
Mismatches ==
    IF ~PassedPreflight THEN 0
    ELSE CASE call.profile.verify_mode = "size" ->
                 Cardinality({i \in Surviving :
                                 ~call.files[i].copy_ok \/ ~call.files[i].same_size})
           [] call.profile.verify_mode = "hash" ->
                 Cardinality({i \in Surviving :
                                 ~call.files[i].copy_ok \/ ~call.files[i].same_hash})
           [] OTHER -> 0

\* C15 as stated: a run returns "success" iff it had no copy error and no
\* mismatch, and else "failed" with a message that reports both counts
C15_SuccessIffNoErrors ==
    result.fn = "run_profile_backup" =>
        IF CopyErrors = 0 /\ Mismatches = 0
        THEN result.value.outcome.status = "success"
        ELSE /\ result.value.outcome.status = "failed"
             /\ result.value.outcome.message = "Completed with errors and mismatches"
             /\ result.value.outcome.errors = CopyErrors
             /\ result.value.outcome.mismatches = Mismatches

\* C15 amended: a run whose source exists and whose destination is not inside
\* the source returns "success" iff it had no copy error and no mismatch, and
\* else "failed" with a message that reports both counts
C15_SuccessIffNoErrorsPastPreflight ==
    (result.fn = "run_profile_backup" /\ PassedPreflight) =>
        IF CopyErrors = 0 /\ Mismatches = 0
        THEN result.value.outcome.status = "success"
        ELSE /\ result.value.outcome.status = "failed"
             /\ result.value.outcome.message = "Completed with errors and mismatches"
             /\ result.value.outcome.errors = CopyErrors
             /\ result.value.outcome.mismatches = Mismatches

\* C15 witness: hash mode, one file copied with another content, no copy
\* error: failed with 0 errors and 1 mismatch
C15_Witness ==
    /\ result.fn = "run_profile_backup"
    /\ call.profile.verify_mode = "hash"
    /\ result.value.outcome.message = "Completed with errors and mismatches"
    /\ result.value.outcome.errors = 0 /\ result.value.outcome.mismatches = 1
    /\ Len(call.files) = 2 /\ call.files[1].same_size /\ ~call.files[1].same_hash

\* C16: a run whose destination is the source or inside it (the source
\* exists) fails with "Destination cannot be inside source" and leaves the
\* file system as it was
C16_NothingTouched ==
    (/\ result.fn = "run_profile_backup"
     /\ call.profile.source_path \in call.fs.dirs
     /\ is_relative_to(Append(call.profile.dest_path, call.profile.name),
                       call.profile.source_path))
        => /\ result.value.outcome.status = "failed"
           /\ result.value.outcome.message = "Destination cannot be inside source"
           /\ result.value.fs = call.fs

\* the backup directories of the profile before and after the run
BackupsBefore == backup_dirs(call.fs.dirs, Append(call.profile.dest_path, call.profile.name))
BackupsAfter ==
    backup_dirs(result.value.fs.dirs, Append(call.profile.dest_path, call.profile.name))
BackupsTotal == BackupsBefore \cup {<<"mnt", "p", TimestampNow>>}

\* the n directories of S with the greatest names
Newest(S, n) == {d \in S : Cardinality({e \in S : e[Len(e)] > d[Len(d)]}) < n}

\* C17 as stated: after a run with retention_count N > 0 and no failing
\* deletion the destination holds the min(N, total) backup directories with
\* the greatest names; with retention_count 0 no directory is deleted
C17_RetentionKeepsNewest ==
    (result.fn = "run_profile_backup" /\ call.profile.dest_path = <<"mnt">>
       /\ call.profile.name = "p") =>
        /\ (call.profile.retention_count > 0 /\ call.undeletable \cap BackupsBefore = {})
              => /\ Cardinality(BackupsAfter) <= call.profile.retention_count
                 /\ BackupsAfter = Newest(BackupsBefore \cup BackupsAfter,
                                          call.profile.retention_count)
        /\ call.profile.retention_count = 0 => BackupsBefore \subseteq BackupsAfter

\* C17 amended: the same of a run whose source exists and whose destination is
\* not inside the source, total counting the directory the run creates
C17_RetentionKeepsNewestPastPreflight ==
    (result.fn = "run_profile_backup" /\ call.profile.dest_path = <<"mnt">>
       /\ call.profile.name = "p" /\ PassedPreflight) =>
        /\ (call.profile.retention_count > 0 /\ call.undeletable \cap BackupsBefore = {})
              => /\ Cardinality(BackupsAfter)
                      = Min(call.profile.retention_count, Cardinality(BackupsTotal))
                 /\ BackupsAfter = Newest(BackupsTotal, call.profile.retention_count)
                 /\ \A f \in call.fs.files :
                       f \in result.value.fs.files
                           <=> \A d \in BackupsBefore \ BackupsAfter : ~is_relative_to(f, d)
        /\ call.profile.retention_count = 0
              => /\ BackupsAfter = BackupsTotal
                 /\ call.fs.files \subseteq result.value.fs.files

\* C17 witness: retention_count 2 and five earlier backups: the run leaves its
\* own directory and the newest earlier one
C17_Witness ==
    /\ result.fn = "run_profile_backup"
    /\ call.profile.retention_count = 2
    /\ Cardinality(BackupsBefore) = 5
    /\ BackupsAfter = {<<"mnt", "p", 5>>, <<"mnt", "p", TimestampNow>>}



(***************************************************************************)
(* C21: for every server whose SSH connection was established, the shell   *)
(* session and the file-transfer sub-session are both closed when          *)
(* _backup_server returns or raises, on every exit path (success,          *)
(* pre-command failure, path failure, failure of open_sftp, failure to     *)
(* create the local backup directory).  A session that was never opened    *)
(* counts as closed.                                                       *)
(***************************************************************************)
SessionDone == result # NoResult /\ result.fn = "_backup_server"

C21_SessionsClosed ==
    (SessionDone /\ call.server.connect_ok)
        => /\ result.value.ssh # "open"
           /\ result.value.sftp # "open"


(***************************************************************************)
(* C22: the worker removes the profile id from the running set after every *)
(* dispatched job, whether the job returned normally, ended failed or      *)
(* raised: while the worker is idle (or its thread has ended) the running  *)
(* set is empty, and while it runs a job the set holds no other id.        *)
(***************************************************************************)
C22_RunningSetCleared ==
    /\ worker_pc \in {"wait", "dead"} => running_profiles = {}
    /\ worker_pc \notin {"wait", "dead"} => running_profiles = {worker_item.profile_id}

\* the worker runs its second job, of another profile, after a job that
\* ended failed
C22_Witness ==
    /\ Len(started) = 2
    /\ started[1] # started[2]
    /\ worker_pc = "engine"
    /\ running_profiles = {started[2]}
    /\ \E r \in DOMAIN runs : runs[r].profile_id = started[1] /\ runs[r].status = "failed"


(***************************************************************************)
(* C23: a Run record is created exactly once per dispatched job of an      *)
(* existing profile, at dispatch and not at enqueue, with status running   *)
(* and no finished_at; it is written exactly once afterwards, at           *)
(* completion, to success or failed; a terminal Run is never modified      *)
(* again.                                                                  *)
(***************************************************************************)
\* the step appends one row for the job of the worker: running, unfinished
RunCreated ==
    /\ Len(runs') = Len(runs) + 1
    /\ SubSeq(runs', 1, Len(runs)) = runs
    /\ runs'[Len(runs')].profile_id = worker_item.profile_id
    /\ runs'[Len(runs')].status = "running"
    /\ runs'[Len(runs')].finished_at = NULL

\* the step writes the row of the job of the worker, and no other, from
\* running to a terminal status
RunCompleted ==
    /\ DOMAIN runs' = DOMAIN runs
    /\ worker_run \in DOMAIN runs
    /\ runs[worker_run].status = "running"
    /\ runs'[worker_run].status \in {"success", "failed"}
    /\ runs'[worker_run].finished_at # NULL
    /\ \A j \in DOMAIN runs : j # worker_run => runs'[j] = runs[j]

\* run_backup found the profile (line 65) and goes on to line 69: the Run of
\* the job is created there
RunCreatedAtDispatch ==
    (worker_pc = "create_run" /\ worker_pc' # worker_pc) => RunCreated

\* the table changes at those two places only (so not at enqueue)
RunWrittenAtDispatchAndCompletion ==
    runs' # runs => \/ worker_pc = "create_run" /\ RunCreated
                    \/ worker_pc = "engine" /\ RunCompleted

RunCompletedOnce ==
    (worker_pc = "engine" /\ worker_pc' # worker_pc) => RunCompleted

TerminalRunFrozen ==
    \A j \in DOMAIN runs :
        runs[j].status \in {"success", "failed"} => (j \in DOMAIN runs' /\ runs'[j] = runs[j])

C23_RunCreatedOnceWrittenOnce ==
    [][/\ RunCreatedAtDispatch
       /\ RunWrittenAtDispatchAndCompletion
       /\ RunCompletedOnce
       /\ TerminalRunFrozen]_vars


\* the decisions taken for the profile and for the SSH task
ProfileDecisions == {result.profile[i].value : i \in DOMAIN result.profile}
SshDecisions == {result.ssh[i].value : i \in DOMAIN result.ssh}

\* the local clock of the cycle is not earlier than schedule_time
ClockReached(schedule_time) ==
    ClockOf(call.now_utc + tz) >= ClockMinutes(schedule_time)

(***************************************************************************)
(* C24: a cycle passes a profile to enqueue only if schedule_enabled is    *)
(* set, schedule_time is non-empty and the local clock time is not earlier *)
(* than schedule_time; when these hold and the profile has no prior Run,   *)
(* it is passed to enqueue in that cycle.                                  *)
(***************************************************************************)
C24_GateOfTheCycle ==
    (call.fn = "decision")
        => LET open == /\ call.profile.schedule_enabled
                       /\ call.profile.schedule_time # <<>>
                       /\ ClockReached(call.profile.schedule_time)
           IN  /\ TRUE \in ProfileDecisions => open
               /\ (open /\ call.last_run = NoRun /\ result.profile # <<>>)
                     => ProfileDecisions = {TRUE}

\* C24 witness: no prior Run, schedule_time 02:00, the cycle of 02:00 passes
\* the profile to enqueue
C24_Witness ==
    /\ call.fn = "decision"
    /\ call.last_run = NoRun
    /\ call.profile.schedule_enabled
    /\ call.profile.schedule_time = HM(2, 0)
    /\ call.now_utc + tz = StartNow + 120
    /\ ProfileDecisions = {TRUE}


\* the calendar dates of the argument and of the value of a calendar call
DateBefore == DaysToDate(DateOf(call.value))
DateAfter == DaysToDate(DateOf(result.value))

(***************************************************************************)
(* C25: advancing a date by one month keeps the day-of-month, clamped to   *)
(* the number of days of the target month (Jan 31 -> Feb 28/29, Dec -> Jan *)
(* of the next year); advancing by one year keeps month and day, clamping  *)
(* Feb 29 to Feb 28 in a non-leap target year; the result is a valid       *)
(* calendar date (the date whose year, month and day are the ones          *)
(* computed), at the same time of day.                                     *)
(***************************************************************************)
C25_AdvanceClamps ==
    /\ result.fn = "add_months"
          => /\ DateAfter.year = (IF DateBefore.month = 12 THEN DateBefore.year + 1
                                                            ELSE DateBefore.year)
             /\ DateAfter.month = (IF DateBefore.month = 12 THEN 1 ELSE DateBefore.month + 1)
             /\ DateAfter.day = Min(DateBefore.day, monthrange(DateAfter.year, DateAfter.month))
             /\ ClockOf(result.value) = ClockOf(call.value)
    /\ result.fn = "add_years"
          => /\ DateAfter.year = DateBefore.year + 1
             /\ DateAfter.month = DateBefore.month
             /\ DateAfter.day = (IF DateBefore.month = 2 /\ DateBefore.day = 29
                                    /\ ~IsLeap(DateAfter.year)
                                 THEN 28 ELSE DateBefore.day)
             /\ ClockOf(result.value) = ClockOf(call.value)

\* C25 witness: 2024-01-31 02:05 advanced by one month is 2024-02-29 02:05
C25_Witness ==
    /\ result.fn = "add_months"
    /\ call.value = DateToDays(2024, 1, 31) * MinutesPerDay + 125
    /\ result.value = DateToDays(2024, 2, 29) * MinutesPerDay + 125


(***************************************************************************)
(* C26: the due decision for a profile, and for the SSH task, depends only *)
(* on the current time, the schedule settings and the most recent Run or   *)
(* SystemRun: decisions taken in states that differ only in the cached     *)
(* markers profiles.last_scheduled_date or ssh_last_scheduled_date are the *)
(* same.                                                                   *)
(***************************************************************************)
C26_MarkersIgnored ==
    (call.fn = "decision")
        => /\ \A i, j \in DOMAIN result.profile : result.profile[i].value = result.profile[j].value
           /\ \A i, j \in DOMAIN result.ssh : result.ssh[i].value = result.ssh[j].value

\* C26 witness: a profile without a prior Run is passed to enqueue at 02:00
\* with the marker unset and with the marker of today, and so is the SSH task
C26_Witness ==
    /\ call.fn = "decision"
    /\ call.last_run = NoRun
    /\ call.now_utc + tz = StartNow + 120
    /\ Len(result.profile) = 2 /\ Len(result.ssh) = 2
    /\ result.profile[1].marker = NULL
    /\ result.profile[2].marker = DateOf(call.now_utc + tz)
    /\ result.profile[2].value = TRUE
    /\ result.ssh[1].marker = NULL
    /\ result.ssh[2].marker = DateOf(call.now_utc + tz)
    /\ result.ssh[2].value = TRUE


(***************************************************************************)
(* C27: the due decision of the SSH task is the same function as the due   *)
(* decision of a profile: for equal current time, enabled flag,            *)
(* schedule_time, frequency and status, started_at and finished_at of the  *)
(* most recent run, _run_ssh_schedule invokes the SSH callback exactly     *)
(* when _run_cycle passes the profile to enqueue.                          *)
(***************************************************************************)
C27_SameDecision ==
    (call.fn = "decision")
        => \A i \in DOMAIN result.profile, j \in DOMAIN result.ssh :
              result.profile[i].value = result.ssh[j].value

\* C27 witness: the last run failed and finished at 23:20; at 02:00 the
\* profile is passed to enqueue and the SSH callback is invoked
C27_Witness ==
    /\ call.fn = "decision"
    /\ call.last_run.status = "failed"
    /\ call.last_run.finished_at = StartNow - 100
    /\ call.last_system_run.status = "failed"
    /\ call.last_system_run.finished_at = StartNow - 100
    /\ call.now_utc + tz = StartNow + 120
    /\ result.profile # <<>> /\ result.ssh # <<>>
    /\ result.profile[1].value = TRUE
    /\ result.ssh[1].value = TRUE


(***************************************************************************)
(* C28: verification walks the source with the same exclusion logic as the *)
(* copy phase: the set of files it checks equals the set of files the copy *)
(* phase attempted to copy, for every source tree and pattern list         *)
(* (excluded directories that contain subdirectories included); so with no *)
(* copy errors and an unchanged source it reports zero mismatches.         *)
(***************************************************************************)
C28_VerifyWalksAsCopy ==
    (result # NoResult /\ result.fn = "walk")
        => /\ result.value.checked = result.value.attempted
           /\ result.value.errors = 0 => result.value.mismatches = 0


\* a walk was made
Walked == result # NoResult /\ result.fn = "walk"

\* the directories of the tree whose relative path or base name matches a pattern
MatchingDirs == {d \in DirsOf(call.tree) : should_exclude(d, call.patterns)}

\* path lies below directory d
Below(path, d) == Len(path) > Len(d) /\ SubSeq(path, 1, Len(d)) = d

\* the matching directories the walk comes to: none of their ancestors matches
ReachedMatchingDirs == {d \in MatchingDirs : \A e \in MatchingDirs : ~Below(d, e)}

\* the files counted as skipped: they match and no directory above them does
SkippedFiles ==
    {f \in call.tree : should_exclude(f, call.patterns)
                       /\ \A e \in MatchingDirs : ~Below(f, e)}

\* no file below a matching directory is copied, and the files of the source
\* root are judged one by one (the root is never excluded)
NothingBelowMatchingDirs ==
    /\ \A d \in MatchingDirs : \A f \in result.value.attempted : ~Below(f, d)
    /\ \A f \in FilesIn(call.tree, <<>>) :
          f \in result.value.attempted <=> ~should_exclude(f, call.patterns)

\* patterns ["*.tmp", "logs"]: logs/x.tmp and all below logs are excluded,
\* data/readme.md is not
ExampleOfPatterns ==
    call.patterns = {"*.tmp", "logs"}
        => /\ \A f \in call.tree : f[1] = "logs" => f \notin result.value.attempted
           /\ <<"data", "readme.md">> \in call.tree
                 => <<"data", "readme.md">> \in result.value.attempted

\* C29 as stated: every matching directory adds exactly one to skipped
C29_ExcludedDirsNotEntered ==
    Walked => /\ NothingBelowMatchingDirs
              /\ ExampleOfPatterns
              /\ result.value.skipped = Cardinality(MatchingDirs) + Cardinality(SkippedFiles)

(***************************************************************************)
(* C29 (amended): a directory whose relative path or base name matches an  *)
(* exclude pattern is not descended into: no file anywhere below it is     *)
(* copied; it adds exactly one to the skipped count when the walk comes to *)
(* it, that is when no directory above it matches (a matching directory    *)
(* below another one is never visited and adds nothing); the source root   *)
(* itself is never excluded.  With patterns ["*.tmp", "logs"], file        *)
(* logs/x.tmp and everything under directory logs are excluded and         *)
(* data/readme.md is not.                                                  *)
(***************************************************************************)
C29_ReachedExcludedDirsNotEntered ==
    Walked => /\ NothingBelowMatchingDirs
              /\ ExampleOfPatterns
              /\ result.value.skipped
                    = Cardinality(ReachedMatchingDirs) + Cardinality(SkippedFiles)

\* C29 witness: patterns ["*.tmp", "logs"] over the whole tree: a.tmp and
\* directory logs are skipped, notes.txt and data/readme.md are copied
C29_Witness ==
    /\ Walked
    /\ call.patterns = {"*.tmp", "logs"}
    /\ call.tree = TreeFiles
    /\ result.value.attempted = {<<"notes.txt">>, <<"data", "readme.md">>}
    /\ result.value.skipped = 2


\* the directory the run makes for its copies
DestRoot == Append(Append(call.profile.dest_path, call.profile.name), TimestampNow)

(***************************************************************************)
(* C30: a failure to copy one file is counted as one error and does not    *)
(* abort the walk: every other non-excluded file of the source is still    *)
(* attempted (and copied when its copy succeeds), and verification and     *)
(* retention still run afterwards.                                         *)
(***************************************************************************)
C30_CopyFailureIsolated ==
    (result.fn = "run_profile_backup" /\ PassedPreflight /\ CopyErrors > 0) =>
        /\ result.value.outcome.errors
              = Cardinality({i \in Surviving : ~call.files[i].copy_ok})
        /\ \A i \in Surviving :
              call.files[i].copy_ok
                  => Append(DestRoot, call.files[i].name) \in result.value.fs.files
        /\ call.profile.verify_mode \in {"size", "hash"}
              => /\ result.value.outcome.mismatches = Mismatches
                 /\ result.value.outcome.mismatches >= CopyErrors
        /\ (call.profile.retention_count > 0 /\ call.undeletable \cap BackupsBefore = {}
              /\ call.profile.dest_path = <<"mnt">> /\ call.profile.name = "p")
              => BackupsAfter = Newest(BackupsTotal, call.profile.retention_count)

\* C30 witness: the copy of the first of two files fails; the second is at
\* the destination, one error is reported
C30_Witness ==
    /\ result.fn = "run_profile_backup" /\ PassedPreflight
    /\ Len(call.files) = 2
    /\ ~call.files[1].excluded /\ ~call.files[1].copy_ok
    /\ ~call.files[2].excluded /\ call.files[2].copy_ok
    /\ result.value.outcome.errors = 1
    /\ Append(DestRoot, call.files[2].name) \in result.value.fs.files
    /\ Append(DestRoot, call.files[1].name) \notin result.value.fs.files


\* what the claim says of surviving file i: it is flagged when it is missing
\* at the destination, in size mode when the byte lengths differ, in hash
\* mode when the contents differ
Flagged(i) ==
    CASE call.profile.verify_mode = "size" ->
             ~call.files[i].copy_ok \/ ~call.files[i].same_size
      [] call.profile.verify_mode = "hash" ->
             ~call.files[i].copy_ok \/ ~call.files[i].same_hash
      [] OTHER -> FALSE

\* the mismatches the run reports (a successful run had none)
ReportedMismatches ==
    IF result.value.outcome.status = "failed" THEN result.value.outcome.mismatches ELSE 0

(***************************************************************************)
(* C31: verification flags a missing destination file in both modes; in    *)
(* size mode it flags a file iff source and destination byte lengths       *)
(* differ; in hash mode iff the contents differ, so a same-size            *)
(* different-content file is flagged in hash mode and not in size mode;    *)
(* with verify_mode none no file is checked and mismatches is 0.           *)
(***************************************************************************)
C31_VerifyModes ==
    (result.fn = "run_profile_backup" /\ PassedPreflight)
        => /\ ReportedMismatches = Cardinality({i \in Surviving : Flagged(i)})
           /\ call.profile.verify_mode = "none"
                 => (result.value.outcome.status = "failed" <=> CopyErrors > 0)

\* C31 witness: size mode, one file copied with the same size and another
\* content, and nothing else wrong: no mismatch, the run succeeds
C31_Witness ==
    /\ result.fn = "run_profile_backup" /\ PassedPreflight
    /\ call.profile.verify_mode = "size"
    /\ Len(call.files) = 1
    /\ ~call.files[1].excluded /\ call.files[1].copy_ok
    /\ call.files[1].same_size /\ ~call.files[1].same_hash
    /\ result.value.outcome.status = "success"


\* the number of times command op was issued
Issued(op) ==
    Cardinality({k \in DOMAIN result.value.events : result.value.events[k] = op})

\* an archive download was made and the remote archive had been created
ArchiveCreated ==
    /\ result # NoResult /\ result.fn = "_download_remote_archive"
    /\ call.host.create_ok

\* the path succeeded: the function returned True
PathSucceeded == result.value.exit = "return" /\ result.value.ok

(***************************************************************************)
(* C32: in archive mode, once the remote scratch archive has been created, *)
(* a removal command for it is issued exactly once, whether the direct     *)
(* download succeeded, the privileged fallback was used or the download    *)
(* failed; and a failure of that removal does not change the outcome of    *)
(* the path: it is what the download made it.                              *)
(***************************************************************************)
C32_CleanupOnceNonFatal ==
    ArchiveCreated
        => /\ Issued("rm") = 1
           /\ result.value.exit = "return"
           /\ result.value.ok = (call.host.get_ok \/ (call.use_sudo /\ call.host.cat = "data"))

(***************************************************************************)
(* C33: in archive mode, when the direct download fails: with sudo         *)
(* disabled the path fails; with sudo enabled the privileged read is       *)
(* attempted exactly once and the path succeeds iff that read returns a    *)
(* non-empty byte string, which is then written as the local archive.  The *)
(* fallback is never attempted when the direct download succeeded.         *)
(***************************************************************************)
C33_FallbackOnce ==
    ArchiveCreated
        => /\ (~call.host.get_ok /\ ~call.use_sudo)
                 => (~PathSucceeded /\ Issued("cat") = 0)
           /\ (~call.host.get_ok /\ call.use_sudo)
                 => /\ Issued("cat") = 1
                    /\ PathSucceeded <=> call.host.cat = "data"
                    /\ Issued("write") = (IF call.host.cat = "data" THEN 1 ELSE 0)
           /\ call.host.get_ok => Issued("cat") = 0

\* the content of the remote path could not be listed or read over sftp
ContentUnread ==
    \/ call.host.stat = "ioerror"
    \/ call.host.stat = "dir" /\ (~call.host.listdir_ok \/ call.host.failing # {})
    \/ call.host.stat = "file" /\ ~call.host.get_ok

(***************************************************************************)
(* C34: in raw mode, a remote path that is missing or that cannot be       *)
(* accessed over the file-transfer session (after sudo probing) makes that *)
(* path fail with a logged failure; a path is never reported successful    *)
(* when its content could not be listed or read.                           *)
(***************************************************************************)
C34_InaccessiblePathFails ==
    (result # NoResult /\ result.fn = "_download_remote_path" /\ ContentUnread)
        => /\ ~PathSucceeded
           /\ result.value.log # {}


\* the local start of the scheduled run of the history, and the slot after
\* it: its day advanced by one recurrence period, at schedule_time
ScheduledStart == call.history[1].started_at + tz

SlotAfter ==
    LET base == DateOf(ScheduledStart) * MinutesPerDay
                + ClockMinutes(call.profile.schedule_time)
        frequency == call.profile.schedule_frequency
    IN  CASE frequency = "week" -> base + 7 * MinutesPerDay
          [] frequency = "month" -> add_months(base, 1)
          [] frequency = "year" -> add_years(base, 1)
          [] OTHER -> base + MinutesPerDay

(***************************************************************************)
(* C35: once a scheduler-triggered run of a profile has succeeded,         *)
(* starting at or after schedule_time on day D, the scheduler does not     *)
(* pass that profile to enqueue again before D advanced by one recurrence  *)
(* period at schedule_time, for every frequency and whatever manual runs   *)
(* succeed in between.                                                     *)
(***************************************************************************)
C35_NoDoubleRun ==
    (result # NoResult /\ result.fn = "run_cycle_history")
        => (result.value => call.now_utc + tz >= SlotAfter)


Queued(p) == \E i \in DOMAIN queue : queue[i].profile_id = p

(***************************************************************************)
(* C36: every accepted enqueue is eventually dispatched: with jobs that    *)
(* terminate and a worker that is scheduled, an id in the queue eventually *)
(* enters the running set and later leaves it, whether the worker was idle *)
(* or busy when the id was accepted.                                       *)
(***************************************************************************)
C36_AcceptedIsDispatched ==
    \A p \in ProfileIds :
        /\ Queued(p) ~> (p \in running_profiles)
        /\ (p \in running_profiles) ~> (p \notin running_profiles)


(***************************************************************************)
(* C37: the busy flag of a system task type is always released: once a     *)
(* request was accepted the flag eventually returns to false whatever the  *)
(* task's outcome, also when creating or finishing the SystemRun record    *)
(* raises, so that a later request of the type is accepted again.          *)
(***************************************************************************)
C37_FlagReleased ==
    \A t \in TaskTypes : system_state[t] ~> ~system_state[t]


\* enqueue does not look at the profiles: an id that is neither queued nor
\* running is accepted, its profile existing or not
EnqueueIgnoresProfiles ==
    \A p \in ProfileIds :
        (ret'.op = "enqueue" /\ ret'.arg = p /\ (accepted' # accepted \/ ret' # ret)
            /\ p \notin running_profiles \cup QueuedIds)
        => /\ ret'.result
           /\ \E triggered_by \in {"manual", "scheduler"} :
                 queue' = Append(queue, [profile_id |-> p, triggered_by |-> triggered_by])

\* run_backup finds no profile for the dispatched id: it returns, with no Run
\* created and no engine started
MissingProfileReturns ==
    (worker_pc = "get_profile" /\ worker_pc' # worker_pc
        /\ worker_item.profile_id \notin profiles)
    => (worker_pc' = "finally" /\ runs' = runs /\ worker_run' = 0
        /\ running_profiles' = running_profiles)

\* the worker then removes the id from the running set and waits for the next
\* job
SkippedJobReleased ==
    (worker_pc = "finally" /\ worker_pc' # worker_pc /\ worker_run = 0)
    => (worker_pc' = "wait" /\ runs' = runs /\ queue' = queue
        /\ running_profiles' = running_profiles \ {worker_item.profile_id})

(***************************************************************************)
(* C38: enqueue accepts a profile_id without checking that the profile     *)
(* exists; when the worker dispatches an id whose profile no longer exists *)
(* no Run is created, no engine is invoked, and the id is removed from the *)
(* running set so that the worker proceeds to the next job.                *)
(***************************************************************************)
C38_MissingProfileSkipped ==
    [][EnqueueIgnoresProfiles /\ MissingProfileReturns /\ SkippedJobReleased]_vars

\* C38 witness: profile 1 was deleted while queued, its id was dispatched and
\* no Run of it exists, and the worker went on to the job of profile 2
C38_Witness ==
    /\ started = <<1, 2>>
    /\ 1 \notin profiles
    /\ \A r \in DOMAIN runs : runs[r].profile_id = 2
    /\ runs # <<>>
    /\ 1 \notin running_profiles


(***************************************************************************)
(* C39: retention never deletes the backup directory created by the        *)
(* current run: for retention_count >= 1 and any directories already       *)
(* present under the profile's destination, whatever their names, the new  *)
(* timestamped directory is among those that remain.                       *)
(***************************************************************************)
C39_NewBackupKept ==
    (result.fn = "run_profile_backup" /\ PassedPreflight
       /\ call.profile.retention_count >= 1)
        => DestRoot \in result.value.fs.dirs


\* the profiles with a Run record whose status is "running"
RunningRunProfiles == {runs[r].profile_id : r \in {x \in DOMAIN runs : runs[x].status = "running"}}

\* an enqueue for a profile with a running Run is turned down and queues
\* nothing
RunningRunBlocksEnqueue ==
    \A p \in RunningRunProfiles :
        (ret'.op = "enqueue" /\ ret'.arg = p /\ (accepted' # accepted \/ ret' # ret))
            => (~ret'.result /\ queue' = queue /\ accepted' = accepted)

====
